---- MODULE Spec2Model ----
(***************************************************************************)
(* Normalized entity cache of pinia-colada-graphql: identity resolution,   *)
(* normalization, the entity store, optimistic layers, denormalization,    *)
(* and the mutation composable that brackets a request with a layer.       *)
(*                                                                         *)
(* JSON values are tagged records:                                         *)
(*   [k |-> "str", v |-> s]   [k |-> "num", n |-> i]   [k |-> "bool", b]   *)
(*   [k |-> "null"]  [k |-> "undef"]                                       *)
(*   [k |-> "list", items |-> <<...>>]                                     *)
(*   [k |-> "obj", f |-> function from field names to values]              *)
(* An entity reference is the object {__ref: id}, as in the source.        *)
(* Object.entries order is the order of FieldOrder.                        *)
(***************************************************************************)
EXTENDS Integers, Sequences, FiniteSets, TLC

VARIABLES
  entities,            \* base store: EntityId -> record (field -> value)
  optimisticLayers,    \* sequence of [id |-> layerId, entities |-> map]
  optimisticIdCounter, \* module-level counter of use-graphql-mutation.ts
  muts,                \* per mutation call: position, context, outcome
  writeLog,            \* history: normalize() output of each write, in order
  lastOp,              \* history: the last cache operation and its pre-state
  queries,             \* per useGraphQLQuery request: position, abort, outcome
  lastRead             \* the last read operation, its arguments and its result

vars == <<entities, optimisticLayers, optimisticIdCounter, muts, writeLog,
          lastOp, queries, lastRead>>

----------------------------------------------------------------------------
(* Values *)

Str(s) == [k |-> "str", v |-> s]
Num(i) == [k |-> "num", n |-> i]
Bool(b) == [k |-> "bool", b |-> b]
Null == [k |-> "null"]
Undef == [k |-> "undef"]
List(s) == [k |-> "list", items |-> s]
Obj(f) == [k |-> "obj", f |-> f]

EmptyMap == [x \in {} |-> Null]

FieldOrder ==
  <<"__typename", "__ref", "id", "_id", "sku", "warehouse", "slug", "name",
    "email", "phone", "friend", "author", "address", "city", "user", "users", "post",
    "profile", "feed", "label">>

Keys(obj) == SelectSeq(FieldOrder, LAMBDA key : key \in DOMAIN obj)

\* obj[field] of JavaScript: undefined when the key is absent
Get(obj, field) == IF field \in DOMAIN obj THEN obj[field] ELSE Undef

\* value == null (loose): null or undefined
IsNullish(value) == value.k \in {"null", "undef"}

\* JavaScript truthiness
Truthy(value) ==
  CASE value.k = "str" -> value.v # ""
    [] value.k = "num" -> value.n # 0
    [] value.k = "bool" -> value.b
    [] value.k \in {"null", "undef"} -> FALSE
    [] OTHER -> TRUE

\* String(value) / template-literal conversion of a primitive
ToStr(value) ==
  CASE value.k = "str" -> value.v
    [] value.k = "num" -> ToString(value.n)
    [] value.k = "bool" -> (IF value.b THEN "true" ELSE "false")
    [] value.k = "null" -> "null"
    [] value.k = "undef" -> "undefined"
    [] value.k = "list" -> ""
    [] OTHER -> "[object Object]"

\* { ...a, ...b }
Spread(a, b) ==
  [x \in (DOMAIN a) \cup (DOMAIN b) |-> IF x \in DOMAIN b THEN b[x] ELSE a[x]]

----------------------------------------------------------------------------
(* Identity resolver *)

NoEntityId == ""

\* bug: the key function looks at a field that is not part of the identity
KeyBySlugOrName(object) ==
  IF Get(object, "slug").k = "str" THEN Get(object, "slug")
  ELSE Get(object, "name")

\* the user key function installed for type Tag: the slug, or null
KeyBySlug(object) ==
  IF Get(object, "slug").k = "str" THEN Get(object, "slug") ELSE Null

\* the outcome of a call that threw instead of returning
Thrown == [k |-> "thrown"]

\* the user key function installed for type Label, (object) =>
\* object.name.toLowerCase(): it throws when name is not a string
KeyByName(object) ==
  IF Get(object, "name").k = "str" THEN Get(object, "name") ELSE Thrown

\* the user merge function installed for type Profile: fields already
\* stored win over incoming ones
MergeKeepExisting(existing, incoming) ==
  IF existing = Undef THEN incoming ELSE Obj(Spread(incoming.f, existing.f))

\* the user merge function installed for the field users of type Feed: the
\* incoming list is appended to the stored one
MergeConcat(existing, incoming) ==
  IF existing = Undef THEN incoming ELSE List(existing.items \o incoming.items)

NoPolicy == [k |-> "none"]

typePolicies ==
  [Product |-> [keyFields |-> [k |-> "array", fields |-> <<"sku", "warehouse">>],
                merge |-> "", fields |-> EmptyMap],
   Tag |-> [keyFields |-> [k |-> "function", fn |-> "KeyBySlug"],
            merge |-> "", fields |-> EmptyMap],
   Label |-> [keyFields |-> [k |-> "function", fn |-> "KeyByName"],
              merge |-> "", fields |-> EmptyMap],
   Profile |-> [keyFields |-> NoPolicy, merge |-> "MergeKeepExisting",
                fields |-> EmptyMap],
   Feed |-> [keyFields |-> NoPolicy, merge |-> "",
             fields |-> [users |-> [merge |-> "MergeConcat"]]]]

\* (keyFields as KeyFieldsFunction)(object)
callKeyFields(keyFields, object) ==
  IF keyFields.fn = "KeyByName" THEN KeyByName(object) ELSE KeyBySlug(object)

\* the EntityId standing for "getEntityId threw"
Threw == "!"

RECURSIVE JoinColon(_)
JoinColon(parts) ==
  IF parts = <<>> THEN ""
  ELSE IF Len(parts) = 1 THEN parts[1]
  ELSE parts[1] \o ":" \o JoinColon(Tail(parts))

\* bug: a missing value is stringified instead of giving an empty segment
KeyPartStringified(object, field) == ToStr(Get(object, field))

KeyPart(object, field) ==
  LET value == Get(object, field)
  IN IF IsNullish(value) THEN ""
     ELSE IF value.k \in {"str", "num", "bool"} THEN ToStr(value)
     ELSE ""

\* bug: no fallback to _id
defaultIdOnly(object) == Get(object, "id")

\* object.id ?? object._id
defaultId(object) ==
  IF IsNullish(Get(object, "id")) THEN Get(object, "_id") ELSE Get(object, "id")

getEntityId(object, policies) ==
  LET tn == Get(object, "__typename")
  IN IF ~Truthy(tn) THEN NoEntityId
     ELSE
       LET typename == ToStr(tn)
           keyFields == IF typename \in DOMAIN policies
                        THEN policies[typename].keyFields
                        ELSE NoPolicy
       IN IF keyFields.k = "function" THEN
            LET customKey == callKeyFields(keyFields, object)
            IN IF customKey = Thrown THEN Threw
               ELSE IF Truthy(customKey)
               THEN typename \o ":" \o ToStr(customKey)
               ELSE NoEntityId
          ELSE IF keyFields.k = "array" THEN
            typename \o ":" \o
              JoinColon([i \in 1..Len(keyFields.fields) |->
                           KeyPart(object, keyFields.fields[i])])
          ELSE
            LET id == defaultId(object)
            IN IF IsNullish(id) THEN NoEntityId
               ELSE IF id.k \notin {"str", "num"} THEN NoEntityId
               ELSE typename \o ":" \o ToStr(id)

toEntityRef(entityId) == Obj([__ref |-> Str(entityId)])

isEntityRef(value) == value.k = "obj" /\ "__ref" \in DOMAIN value.f

----------------------------------------------------------------------------
(* Normalizer *)

\* bug: a second occurrence of an entity in the pass replaces the first
setEntityReplace(ents, entityId, normalizedObj) ==
  (entityId :> normalizedObj) @@ ents

\* bug: the fields of the earlier occurrence win over the later one's
setEntityExistingWins(ents, entityId, normalizedObj) ==
  IF entityId \in DOMAIN ents
  THEN [ents EXCEPT ![entityId] = Spread(normalizedObj, ents[entityId])]
  ELSE (entityId :> normalizedObj) @@ ents

\* the entity map of the pass after an entity object has been normalized:
\* merged over an earlier occurrence of the same id
setEntity(ents, entityId, normalizedObj) ==
  IF entityId \in DOMAIN ents
  THEN [ents EXCEPT ![entityId] = Spread(ents[entityId], normalizedObj)]
  ELSE (entityId :> normalizedObj) @@ ents

RECURSIVE normalizeValue(_, _), normalizeItems(_, _), normalizeFields(_, _, _)

\* value.map(normalizeValue), threading the entity map of the pass; threw
\* says that getEntityId threw somewhere inside: entities is then the map
\* of the pass as the exception left it, which no caller gets to see
normalizeItems(items, ents) ==
  IF items = <<>> THEN [result |-> <<>>, entities |-> ents, threw |-> FALSE]
  ELSE LET h == normalizeValue(Head(items), ents)
           t == normalizeItems(Tail(items), h.entities)
       IN IF h.threw THEN [result |-> <<>>, entities |-> h.entities, threw |-> TRUE]
          ELSE [result |-> <<h.result>> \o t.result, entities |-> t.entities,
                threw |-> t.threw]

\* the loop over Object.entries(obj)
normalizeFields(obj, keys, ents) ==
  IF keys = <<>> THEN [result |-> EmptyMap, entities |-> ents, threw |-> FALSE]
  ELSE LET h == normalizeValue(obj[Head(keys)], ents)
           t == normalizeFields(obj, Tail(keys), h.entities)
       IN IF h.threw THEN [result |-> EmptyMap, entities |-> h.entities, threw |-> TRUE]
          ELSE [result |-> (Head(keys) :> h.result) @@ t.result,
                entities |-> t.entities, threw |-> t.threw]

normalizeValue(value, ents) ==
  IF IsNullish(value) THEN [result |-> value, entities |-> ents, threw |-> FALSE]
  ELSE IF value.k = "list" THEN
    LET r == normalizeItems(value.items, ents)
    IN [result |-> List(r.result), entities |-> r.entities, threw |-> r.threw]
  ELSE IF value.k = "obj" THEN
    LET entityId == getEntityId(value.f, typePolicies)
        r == normalizeFields(value.f, Keys(value.f), ents)
        normalizedObj == r.result
    IN IF entityId = Threw
       THEN [result |-> Thrown, entities |-> ents, threw |-> TRUE]
       ELSE IF r.threw
       THEN [result |-> Thrown, entities |-> r.entities, threw |-> TRUE]
       ELSE IF entityId # NoEntityId THEN
         [result |-> toEntityRef(entityId),
          entities |-> setEntity(r.entities, entityId, normalizedObj),
          threw |-> FALSE]
       ELSE [result |-> Obj(normalizedObj), entities |-> r.entities,
             threw |-> FALSE]
  ELSE [result |-> value, entities |-> ents, threw |-> FALSE]

\* normalize(data) throws: the key function of some object threw
normalizeThrows(data) == normalizeValue(data, EmptyMap).threw

normalize(data) ==
  LET r == normalizeValue(data, EmptyMap)
  IN [result |-> r.result, entities |-> r.entities]

----------------------------------------------------------------------------
(* Denormalizer *)

RefId(value) ==
  IF value.f["__ref"].k = "str" THEN value.f["__ref"].v ELSE NoEntityId

\* bug: a reference met again on the path is dropped
circularResultUndef(entityId) == Undef

\* the value returned for a reference whose id is on the recursion path
circularResult(entityId) == Obj([__ref |-> Str(entityId)])

\* bug: a reference without a record is returned as it is
danglingResultRef(entityId) == Obj([__ref |-> Str(entityId)])

\* the value returned for a reference whose id is not in the map
danglingResult(entityId) == Undef

\* visited.add(entityId) before descending into the record
visitedAdd(visited, entityId) == visited \cup {entityId}

\* bug: an id stays in the set once visited
visitedDeleteKeeps(visited, entityId) == visited

\* visited.delete(entityId) after the recursive call has returned
visitedDelete(visited, entityId) == visited \ {entityId}

\* denormalize with its mutable visited set: the result and the set as the
\* call leaves it
RECURSIVE denormalizeWalk(_, _, _), denormalizeItems(_, _, _)
RECURSIVE denormalizeEntries(_, _, _, _)

\* result.map((item) => denormalize(item, entities, visited))
denormalizeItems(items, ents, visited) ==
  IF items = <<>> THEN [out |-> <<>>, visited |-> visited]
  ELSE LET h == denormalizeWalk(Head(items), ents, visited)
           t == denormalizeItems(Tail(items), ents, h.visited)
       IN [out |-> <<h.out>> \o t.out, visited |-> t.visited]

\* the loop over Object.entries(obj)
denormalizeEntries(obj, keys, ents, visited) ==
  IF keys = <<>> THEN [out |-> EmptyMap, visited |-> visited]
  ELSE LET h == denormalizeWalk(obj[Head(keys)], ents, visited)
           t == denormalizeEntries(obj, Tail(keys), ents, h.visited)
       IN [out |-> (Head(keys) :> h.out) @@ t.out, visited |-> t.visited]

denormalizeWalk(result, ents, visited) ==
  IF IsNullish(result) THEN [out |-> result, visited |-> visited]
  ELSE IF result.k = "list" THEN
    LET r == denormalizeItems(result.items, ents, visited)
    IN [out |-> List(r.out), visited |-> r.visited]
  ELSE IF isEntityRef(result) THEN
    LET entityId == RefId(result)
    IN IF entityId \in visited
       THEN [out |-> circularResult(entityId), visited |-> visited]
       ELSE IF entityId \notin DOMAIN ents
       THEN [out |-> danglingResult(entityId), visited |-> visited]
       ELSE LET r == denormalizeWalk(Obj(ents[entityId]), ents,
                                     visitedAdd(visited, entityId))
            IN [out |-> r.out, visited |-> visitedDelete(r.visited, entityId)]
  ELSE IF result.k = "obj" THEN
    LET r == denormalizeEntries(result.f, Keys(result.f), ents, visited)
    IN [out |-> Obj(r.out), visited |-> r.visited]
  ELSE [out |-> result, visited |-> visited]

denormalize(result, ents, visited) == denormalizeWalk(result, ents, visited).out

----------------------------------------------------------------------------
(* Fragment masking *)

\* a document is its list of definitions; a definition is its kind and the
\* selections of its selection set; alias "" stands for no alias
Document(definitions) == [definitions |-> definitions]

Definition(kind, selections) == [kind |-> kind, selections |-> selections]

Field(name) == [kind |-> "Field", name |-> name, alias |-> ""]

AliasedField(alias, name) == [kind |-> "Field", name |-> name, alias |-> alias]

FragmentSpread(name) == [kind |-> "FragmentSpread", name |-> name, alias |-> ""]

\* the field names a selection set adds: alias ?? name of its Field selections
extractFieldsFromSelectionSet(selections) ==
  { IF selections[i].alias # "" THEN selections[i].alias ELSE selections[i].name :
      i \in {j \in DOMAIN selections : selections[j].kind = "Field"} }

getFragmentFields(fragment) ==
  LET fragmentDefs ==
        SelectSeq(fragment.definitions,
                  LAMBDA def : def.kind = "FragmentDefinition")
  IN IF fragmentDefs = <<>> THEN {}
     ELSE extractFieldsFromSelectionSet(Head(fragmentDefs).selections)
            \cup {"__typename"}

\* bug: a reference is left as stored
maskRefRaw(value, ents, visited) == value

\* a reference under a declared field: the full denormalized record when it
\* resolves and is not being visited, the reference itself otherwise
maskRef(value, ents, visited) ==
  LET ref == RefId(value)
  IN IF ref \in DOMAIN ents /\ ref \notin visited
     THEN denormalize(Obj(ents[ref]), ents, visited \cup {ref})
     ELSE value

\* the value of one declared field
maskField(value, ents, visited) ==
  IF isEntityRef(value) THEN maskRef(value, ents, visited)
  ELSE IF value.k = "list" THEN
    List([i \in 1..Len(value.items) |->
            IF isEntityRef(value.items[i])
            THEN maskRef(value.items[i], ents, visited)
            ELSE value.items[i]])
  ELSE value

\* bug: every field of the record is returned
denormalizeWithMaskAll(entity, ents, fragmentFields, visited) ==
  Obj([fieldName \in DOMAIN entity |-> maskField(entity[fieldName], ents, visited)])

denormalizeWithMask(entity, ents, fragmentFields, visited) ==
  Obj([fieldName \in fragmentFields \cap DOMAIN entity |->
         maskField(entity[fieldName], ents, visited)])

----------------------------------------------------------------------------
(* Normalized cache store: operations on entities and optimisticLayers *)

\* bug: the spread is the wrong way round, { ...entity, ...existing }
ComposeLayerExistingWins(merged, layerEntities) ==
  [id \in (DOMAIN merged) \cup (DOMAIN layerEntities) |->
     IF id \in DOMAIN layerEntities
     THEN IF id \in DOMAIN merged
          THEN Spread(layerEntities[id], merged[id])
          ELSE layerEntities[id]
     ELSE merged[id]]

\* the loop of getEntities merging one layer into the view
ComposeLayer(merged, layerEntities) ==
  [id \in (DOMAIN merged) \cup (DOMAIN layerEntities) |->
     IF id \in DOMAIN layerEntities
     THEN IF id \in DOMAIN merged
          THEN Spread(merged[id], layerEntities[id])
          ELSE layerEntities[id]
     ELSE merged[id]]

RECURSIVE ComposeView(_, _)
ComposeView(base, layers) ==
  IF layers = <<>> THEN base
  ELSE ComposeView(ComposeLayer(base, Head(layers).entities), Tail(layers))

\* bug: reads see the base store only
getEntitiesBaseOnly == entities

getEntities == ComposeView(entities, optimisticLayers)

\* bug: write keeps only the records of the incoming payload
MergeIntoDropOthers(existingEntities, newEntities) ==
  [id \in DOMAIN newEntities |->
     IF id \in DOMAIN existingEntities
     THEN Spread(existingEntities[id], newEntities[id])
     ELSE newEntities[id]]

\* bug: write replaces an existing record instead of merging into it
MergeIntoReplace(existingEntities, newEntities) ==
  [id \in (DOMAIN existingEntities) \cup (DOMAIN newEntities) |->
     IF id \in DOMAIN newEntities THEN newEntities[id]
     ELSE existingEntities[id]]

\* bug: the spread is the wrong way round, { ...entity, ...existing }
MergeIntoExistingWins(existingEntities, newEntities) ==
  [id \in (DOMAIN existingEntities) \cup (DOMAIN newEntities) |->
     IF id \in DOMAIN newEntities
     THEN IF id \in DOMAIN existingEntities
          THEN Spread(newEntities[id], existingEntities[id])
          ELSE newEntities[id]
     ELSE existingEntities[id]]

\* the loop of write merging the new entities into the existing ones
MergeInto(existingEntities, newEntities) ==
  [id \in (DOMAIN existingEntities) \cup (DOMAIN newEntities) |->
     IF id \in DOMAIN newEntities
     THEN IF id \in DOMAIN existingEntities
          THEN Spread(existingEntities[id], newEntities[id])
          ELSE newEntities[id]
     ELSE existingEntities[id]]

\* normalize throws before entities.value is assigned
\* bug: the response is not merged into the store
writeNothing(data) == UNCHANGED <<entities, optimisticLayers>>

\* bug: the pass writes into the store as it goes, so the entities
\* normalized before an exception stay merged
writeMergesPartial(data) ==
  /\ entities' = MergeInto(entities, normalizeValue(data, EmptyMap).entities)
  /\ UNCHANGED optimisticLayers

write(data) ==
  /\ entities' = IF normalizeThrows(data) THEN entities
                 ELSE MergeInto(entities, normalize(data).entities)
  /\ UNCHANGED optimisticLayers

\* what write and addOptimisticLayer give their caller: nothing, or the
\* exception normalize threw
writeReturns(data) == IF normalizeThrows(data) THEN Thrown ELSE Undef

read(rootResult) == denormalize(rootResult, getEntities, {})

\* bug: an exception of the key function is caught and gives no id
ResolveIdArgCaught(id) ==
  IF id.k = "str" THEN id.v
  ELSE IF getEntityId(id.f, typePolicies) = Threw THEN NoEntityId
  ELSE getEntityId(id.f, typePolicies)

\* typeof id === "string" ? id : getEntityId(id, typePolicies)
ResolveIdArg(id) ==
  IF id.k = "str" THEN id.v ELSE getEntityId(id.f, typePolicies)

getEntity(id) == Get(getEntities, id)

toReference(object) ==
  LET entityId == getEntityId(object, typePolicies)
  IN IF entityId = Threw THEN Thrown
     ELSE IF entityId # NoEntityId THEN toEntityRef(entityId) ELSE Undef

\* an omitted fragment argument
NoFragment == Undef

readFragment(id, fragment) ==
  LET entityId == ResolveIdArg(id)
      allEntities == getEntities
  IN IF entityId = Threw THEN Thrown
     ELSE IF entityId = NoEntityId THEN Null
     ELSE IF entityId \notin DOMAIN allEntities THEN Null
     ELSE IF fragment # NoFragment
     THEN denormalizeWithMask(allEntities[entityId], allEntities,
                              getFragmentFields(fragment), {})
     ELSE denormalize(Obj(allEntities[entityId]), allEntities, {})

\* the error useFragment throws with throwOnMissing
FragmentError(message) == [k |-> "thrown", message |-> message]

\* bug: throwOnMissing is ignored
useFragmentNeverThrows(fragmentDoc, ref, throwOnMissing) ==
  IF ~Truthy(ref) THEN Null
  ELSE IF ~Truthy(Get(ref.f, "__typename")) THEN Null
  ELSE IF IsNullish(Get(ref.f, "id")) THEN Null
  ELSE readFragment(Str(ToStr(ref.f["__typename"]) \o ":" \o ToStr(ref.f["id"])),
                    fragmentDoc)

\* the computed getter of useFragment(fragmentDoc, fragmentRef, options)
useFragment(fragmentDoc, ref, throwOnMissing) ==
  IF ~Truthy(ref) THEN Null
  ELSE IF ~Truthy(Get(ref.f, "__typename"))
  THEN IF throwOnMissing THEN FragmentError("is missing __typename") ELSE Null
  ELSE IF IsNullish(Get(ref.f, "id"))
  THEN IF throwOnMissing THEN FragmentError("is missing id") ELSE Null
  ELSE LET entityId == ToStr(ref.f["__typename"]) \o ":" \o ToStr(ref.f["id"])
           entity == readFragment(Str(entityId), fragmentDoc)
       IN IF ~Truthy(entity) /\ throwOnMissing
          THEN FragmentError("Entity not found")
          ELSE entity

\* bug: the data replaces the record instead of being merged into it
writeFragmentReplaces(id, data) ==
  LET entityId == ResolveIdArg(id)
  IN /\ entities' =
          IF entityId = Threw \/ entityId = NoEntityId THEN entities
          ELSE (entityId :> data) @@ entities
     /\ UNCHANGED optimisticLayers

writeFragment(id, data) ==
  LET entityId == ResolveIdArg(id)
  IN /\ entities' =
          IF entityId = Threw \/ entityId = NoEntityId THEN entities
          ELSE IF entityId \in DOMAIN entities
          THEN [entities EXCEPT ![entityId] = Spread(@, data)]
          ELSE (entityId :> data) @@ entities
     /\ UNCHANGED optimisticLayers

\* what writeFragment gives its caller: nothing, or the exception of the
\* key function
writeFragmentReturns(id) ==
  IF ResolveIdArg(id) = Threw THEN Thrown ELSE Undef

\* bug: a field name is ignored and the whole record removed
evictResultWholeRecord(id, fieldName) ==
  LET entityId == ResolveIdArg(id)
  IN IF entityId = Threw
     THEN [entities |-> entities, returned |-> Thrown]
     ELSE IF entityId = NoEntityId \/ entityId \notin DOMAIN entities
     THEN [entities |-> entities, returned |-> Bool(FALSE)]
     ELSE [entities |-> [e \in (DOMAIN entities) \ {entityId} |-> entities[e]],
           returned |-> Bool(TRUE)]

\* fieldName "" stands for an omitted (falsy) field name
evictResult(id, fieldName) ==
  LET entityId == ResolveIdArg(id)
  IN IF entityId = Threw
     THEN [entities |-> entities, returned |-> Thrown]
     ELSE IF entityId = NoEntityId \/ entityId \notin DOMAIN entities
     THEN [entities |-> entities, returned |-> Bool(FALSE)]
     ELSE IF fieldName # ""
     THEN [entities |->
             [entities EXCEPT ![entityId] =
                [key \in (DOMAIN @) \ {fieldName} |-> @[key]]],
           returned |-> Bool(TRUE)]
     ELSE [entities |-> [e \in (DOMAIN entities) \ {entityId} |-> entities[e]],
           returned |-> Bool(TRUE)]

evict(id, fieldName) ==
  /\ entities' = evictResult(id, fieldName).entities
  /\ UNCHANGED optimisticLayers

\* bug: the optimistic layers survive
clearKeepsLayers ==
  /\ entities' = EmptyMap
  /\ UNCHANGED optimisticLayers

clear ==
  /\ entities' = EmptyMap
  /\ optimisticLayers' = <<>>

\* bug: the optimistic data is also merged into the base store
addOptimisticLayerIntoBase(layerId, data) ==
  /\ optimisticLayers' =
       Append(optimisticLayers,
              [id |-> layerId, entities |-> normalize(data).entities])
  /\ entities' = MergeInto(entities, normalize(data).entities)

addOptimisticLayer(layerId, data) ==
  /\ optimisticLayers' =
       IF normalizeThrows(data) THEN optimisticLayers
       ELSE Append(optimisticLayers,
                   [id |-> layerId, entities |-> normalize(data).entities])
  /\ UNCHANGED entities

\* bug: the filter keeps the layer instead of dropping it
removeOptimisticLayerKeeps(layerId) ==
  /\ optimisticLayers' =
       SelectSeq(optimisticLayers, LAMBDA layer : layer.id = layerId)
  /\ UNCHANGED entities

\* bug: the most recently added layer is removed, whatever its id
removeOptimisticLayerPop(layerId) ==
  /\ optimisticLayers' =
       IF optimisticLayers = <<>> THEN <<>>
       ELSE SubSeq(optimisticLayers, 1, Len(optimisticLayers) - 1)
  /\ UNCHANGED entities

removeOptimisticLayer(layerId) ==
  /\ optimisticLayers' =
       SelectSeq(optimisticLayers, LAMBDA layer : layer.id # layerId)
  /\ UNCHANGED entities

----------------------------------------------------------------------------
(* Sequences of cache.write calls, each by a query, with their history *)

MaxWrites == 3

User(id, fields) ==
  Obj(Spread([__typename |-> Str("User"), id |-> id], fields))

WritePayloads ==
  { Obj([user |-> User(Str("1"), [name |-> Str("A")])]),
    Obj([user |-> User(Str("1"), [email |-> Str("a@x")])]),
    Obj([user |-> User(Str("1"), [name |-> Str("A2")])]),
    Obj([user |-> User(Num(1), [name |-> Str("N")])]),
    Obj([users |-> List(<<User(Str("1"), [name |-> Str("B")]),
                          User(Str("2"), [name |-> Str("C")])>>)]),
    Obj([users |-> List(<<User(Str("2"), [name |-> Str("A")]),
                          User(Str("2"), [email |-> Str("c@x")])>>)]),
    Obj([user |-> User(Str("2"),
                       [name |-> Str("C"),
                        address |-> Obj([city |-> Str("X")]),
                        friend |-> User(Str("1"), [name |-> Str("F"),
                                                   email |-> Str("f@x")])])]) }

\* no read operation has been called yet
NoRead == [op |-> "none"]

\* the last operation: its name and layer handle; for addOptimisticLayer the
\* composed view before it and whether the handle was unused; a
\* removeOptimisticLayer directly after the add of the same handle keeps both
Op(op, layerId, view, fresh, afterAdd) ==
  [op |-> op, layerId |-> layerId, view |-> view, fresh |-> fresh,
   afterAdd |-> afterAdd, target |-> "", field |-> ""]

NoOp(op) == Op(op, "", EmptyMap, FALSE, FALSE)

\* evict: the resolved id and field name it was called with, and the
\* composed view before it
EvictOp(entityId, fieldName, view) ==
  [Op("evict", "", view, FALSE, FALSE) EXCEPT
     !.target = entityId, !.field = fieldName]

InitCache ==
  /\ entities = EmptyMap
  /\ optimisticLayers = <<>>
  /\ optimisticIdCounter = 0
  /\ muts = <<>>
  /\ writeLog = <<>>
  /\ lastOp = NoOp("init")
  /\ queries = <<>>
  /\ lastRead = NoRead

\* a query's continuation calls cache.write(data)
QueryWrite(data) ==
  /\ Len(writeLog) < MaxWrites
  /\ write(data)
  /\ writeLog' = Append(writeLog, normalize(data))
  /\ lastOp' = NoOp("write")
  /\ UNCHANGED <<optimisticIdCounter, muts, queries, lastRead>>

NextWrites == \E data \in WritePayloads : QueryWrite(data)

SpecWrites == InitCache /\ [][NextWrites]_vars

----------------------------------------------------------------------------
(* A caller driving the public operations of the cache *)

MaxLayers == 2

CachePayloads ==
  { Obj([user |-> User(Str("1"), [name |-> Str("A"),
                                  address |-> Obj([city |-> Str("X")])])]),
    Obj([user |-> User(Str("2"), [name |-> Str("C"),
                                  friend |-> User(Str("1"),
                                                  [email |-> Str("f@x")])])]) }

FragmentIds ==
  { Str("User:1"),
    Obj([__typename |-> Str("User"), id |-> Str("2")]),
    Obj([id |-> Str("2")]) }

FragmentData ==
  { [name |-> Str("A2")],
    [friend |-> User(Str("2"), [name |-> Str("B")])] }

EvictFields == {"", "id"}

LayerIds == {"L1", "L2"}

LayerPayloads ==
  { Obj([user |-> User(Str("1"), [name |-> Str("O1"), email |-> Str("o@x")])]),
    Obj([user |-> User(Str("1"), [name |-> Str("O2")])]) }

LayerIdsOf(layers) == {layers[i].id : i \in 1..Len(layers)}

CallWrite(data) ==
  /\ write(data)
  /\ lastOp' = NoOp("write")
  /\ UNCHANGED <<optimisticIdCounter, muts, writeLog, queries, lastRead>>

CallWriteFragment(id, data) ==
  /\ writeFragment(id, data)
  /\ lastOp' = NoOp("writeFragment")
  /\ UNCHANGED <<optimisticIdCounter, muts, writeLog, queries, lastRead>>

CallEvict(id, fieldName) ==
  /\ evict(id, fieldName)
  /\ lastOp' = EvictOp(ResolveIdArg(id), fieldName, getEntities)
  /\ UNCHANGED <<optimisticIdCounter, muts, writeLog, queries, lastRead>>

CallClear ==
  /\ clear
  /\ lastOp' = NoOp("clear")
  /\ UNCHANGED <<optimisticIdCounter, muts, writeLog, queries, lastRead>>

CallAddOptimisticLayer(layerId, data) ==
  /\ Len(optimisticLayers) < MaxLayers
  /\ addOptimisticLayer(layerId, data)
  /\ lastOp' = Op("add", layerId, getEntities,
                  layerId \notin LayerIdsOf(optimisticLayers), FALSE)
  /\ UNCHANGED <<optimisticIdCounter, muts, writeLog, queries, lastRead>>

CallRemoveOptimisticLayer(layerId) ==
  /\ removeOptimisticLayer(layerId)
  /\ lastOp' = IF lastOp.op = "add" /\ lastOp.layerId = layerId
                THEN Op("remove", layerId, lastOp.view, lastOp.fresh, TRUE)
                ELSE Op("remove", layerId, EmptyMap, FALSE, FALSE)
  /\ UNCHANGED <<optimisticIdCounter, muts, writeLog, queries, lastRead>>

Next ==
  \/ \E data \in CachePayloads : CallWrite(data)
  \/ \E id \in FragmentIds : \E data \in FragmentData :
       CallWriteFragment(id, data)
  \/ \E id \in FragmentIds : \E fieldName \in EvictFields :
       CallEvict(id, fieldName)
  \/ CallClear
  \/ \E layerId \in LayerIds : \E data \in LayerPayloads :
       CallAddOptimisticLayer(layerId, data)
  \/ \E layerId \in LayerIds : CallRemoveOptimisticLayer(layerId)

Spec == InitCache /\ [][Next]_vars

----------------------------------------------------------------------------
(* useGraphQLMutation: calls of mutate, run by useMutation of Pinia Colada *)
(* (onMutate, then mutation, then onSuccess; onError on any rejection)     *)

MaxMutations == 2

\* a call that has not started: no options, no context
IdleMutation ==
  [pc |-> "idle", optimistic |-> FALSE, hook |-> FALSE, layerAdded |-> "",
   ctxLayerId |-> "", failed |-> FALSE, otherWrites |-> FALSE,
   baseAtStart |-> EmptyMap, cleared |-> FALSE]

InFlight(m) == muts[m].pc \in {"onMutate", "request", "onSuccess", "onError"}

\* the optimisticResponse option of call m
OptimisticResponse(m) ==
  Obj([user |-> User(Str("1"), [name |-> Str("O" \o ToString(m))])])

\* the data of the server's response to call m
ServerData(m) ==
  Obj([user |-> User(Str("1"), [name |-> Str("S" \o ToString(m))])])

QueryData == Obj([user |-> User(Str("1"), [name |-> Str("Q")])])

Responses == {"networkError", "errors", "noData", "data"}

\* a write landed: every other call in flight has seen a write in between
\* (baseAtStart is history kept only while no other write has landed)
NoteWrite(ms, writer) ==
  [m \in DOMAIN ms |->
     IF m # writer /\ ms[m].pc \in {"onMutate", "request", "onSuccess", "onError"}
     THEN [ms[m] EXCEPT !.otherWrites = TRUE, !.baseAtStart = EmptyMap]
     ELSE ms[m]]

InitMutations ==
  /\ entities = EmptyMap
  /\ optimisticLayers = <<>>
  /\ optimisticIdCounter = 0
  /\ muts = [m \in 1..MaxMutations |-> IdleMutation]
  /\ writeLog = <<>>
  /\ lastOp = NoOp("init")
  /\ queries = <<>>
  /\ lastRead = NoRead

\* mutate(): the onMutate option up to its await of the user's hook
OnMutate(m, optimistic, hook) ==
  /\ muts[m].pc = "idle"
  /\ \A n \in 1..(m - 1) : muts[n].pc # "idle"
  /\ LET layerId == "optimistic-" \o ToString(optimisticIdCounter + 1)
     IN /\ IF optimistic
           THEN /\ optimisticIdCounter' = optimisticIdCounter + 1
                /\ addOptimisticLayer(layerId, OptimisticResponse(m))
           ELSE UNCHANGED <<optimisticIdCounter, entities, optimisticLayers>>
        /\ muts' = [muts EXCEPT ![m] =
             [pc |-> IF hook THEN "onMutate" ELSE "request",
              optimistic |-> optimistic, hook |-> hook,
              layerAdded |-> IF optimistic THEN layerId ELSE "",
              ctxLayerId |-> IF optimistic /\ ~hook THEN layerId ELSE "",
              failed |-> FALSE, otherWrites |-> FALSE,
              baseAtStart |-> entities, cleared |-> FALSE]]
  /\ lastOp' = NoOp("onMutate")
  /\ UNCHANGED <<writeLog, queries, lastRead>>

\* the user's onMutate hook returns: the context carries the layer id
OnMutateReturns(m) ==
  /\ muts[m].pc = "onMutate"
  /\ muts' = [muts EXCEPT ![m].pc = "request",
                          ![m].ctxLayerId = muts[m].layerAdded]
  /\ lastOp' = NoOp("onMutateReturns")
  /\ UNCHANGED <<entities, optimisticLayers, optimisticIdCounter, writeLog,
                 queries, lastRead>>

\* the user's onMutate hook throws: onMutate rejects, no context is returned
OnMutateThrows(m) ==
  /\ muts[m].pc = "onMutate"
  /\ muts' = [muts EXCEPT ![m].pc = "onError", ![m].failed = TRUE]
  /\ lastOp' = NoOp("onMutateThrows")
  /\ UNCHANGED <<entities, optimisticLayers, optimisticIdCounter, writeLog,
                 queries, lastRead>>

\* the mutation option: the continuation after client.execute settles
Mutation(m, response, transformThrows) ==
  /\ muts[m].pc = "request"
  /\ IF response = "data"
     THEN /\ write(ServerData(m))
          /\ muts' = [NoteWrite(muts, m) EXCEPT
               ![m].pc = IF transformThrows THEN "onError" ELSE "onSuccess",
               ![m].failed = transformThrows]
     ELSE /\ muts' = [muts EXCEPT ![m].pc = "onError", ![m].failed = TRUE]
          /\ UNCHANGED <<entities, optimisticLayers>>
  /\ lastOp' = NoOp("mutation")
  /\ UNCHANGED <<optimisticIdCounter, writeLog, queries, lastRead>>

\* the onSuccess option; the user's onSuccess hook may throw
OnSuccess(m, hookThrows) ==
  /\ muts[m].pc = "onSuccess"
  /\ IF muts[m].ctxLayerId # ""
     THEN removeOptimisticLayer(muts[m].ctxLayerId)
     ELSE UNCHANGED <<entities, optimisticLayers>>
  /\ muts' = [muts EXCEPT ![m].pc = IF hookThrows THEN "onError" ELSE "settled",
                          ![m].failed = hookThrows]
  /\ lastOp' = NoOp("onSuccess")
  /\ UNCHANGED <<optimisticIdCounter, writeLog, queries, lastRead>>

\* the onError option
OnError(m) ==
  /\ muts[m].pc = "onError"
  /\ IF muts[m].ctxLayerId # ""
     THEN removeOptimisticLayer(muts[m].ctxLayerId)
     ELSE UNCHANGED <<entities, optimisticLayers>>
  /\ muts' = [muts EXCEPT ![m].pc = "settled"]
  /\ lastOp' = NoOp("onError")
  /\ UNCHANGED <<optimisticIdCounter, writeLog, queries, lastRead>>

\* a query's continuation writes while mutations are in flight
QueryWriteDuring ==
  /\ \E m \in DOMAIN muts : InFlight(m)
  /\ write(QueryData)
  /\ muts' = NoteWrite(muts, 0)
  /\ lastOp' = NoOp("write")
  /\ UNCHANGED <<optimisticIdCounter, writeLog, queries, lastRead>>

\* clear() was called: every call in flight has seen it
NoteClear(ms) ==
  [m \in DOMAIN ms |->
     IF ms[m].pc \in {"onMutate", "request", "onSuccess", "onError"}
     THEN [ms[m] EXCEPT !.cleared = TRUE]
     ELSE ms[m]]

\* the application calls cache.clear() while mutations are in flight
ClearDuring ==
  /\ \E m \in DOMAIN muts : InFlight(m)
  /\ clear
  /\ muts' = NoteClear(NoteWrite(muts, 0))
  /\ lastOp' = NoOp("clear")
  /\ UNCHANGED <<optimisticIdCounter, writeLog, queries, lastRead>>

NextMutations ==
  \/ \E m \in DOMAIN muts : \E optimistic \in BOOLEAN : \E hook \in BOOLEAN :
       OnMutate(m, optimistic, hook)
  \/ \E m \in DOMAIN muts : OnMutateReturns(m)
  \/ \E m \in DOMAIN muts : OnMutateThrows(m)
  \/ \E m \in DOMAIN muts : \E response \in Responses :
       \E transformThrows \in BOOLEAN : Mutation(m, response, transformThrows)
  \/ \E m \in DOMAIN muts : \E hookThrows \in BOOLEAN : OnSuccess(m, hookThrows)
  \/ \E m \in DOMAIN muts : OnError(m)
  \/ QueryWriteDuring

SpecMutations == InitMutations /\ [][NextMutations]_vars

\* mutations with cache.clear() called while they are in flight
NextClear ==
  \/ \E m \in DOMAIN muts : \E optimistic \in BOOLEAN : \E hook \in BOOLEAN :
       OnMutate(m, optimistic, hook)
  \/ \E m \in DOMAIN muts : OnMutateReturns(m)
  \/ \E m \in DOMAIN muts : OnMutateThrows(m)
  \/ \E m \in DOMAIN muts : \E response \in Responses :
       \E transformThrows \in BOOLEAN : Mutation(m, response, transformThrows)
  \/ \E m \in DOMAIN muts : \E hookThrows \in BOOLEAN : OnSuccess(m, hookThrows)
  \/ \E m \in DOMAIN muts : OnError(m)
  \/ ClearDuring

SpecClear == InitMutations /\ [][NextClear]_vars

----------------------------------------------------------------------------
(* useGraphQLQuery: overlapping requests, each with its AbortSignal *)

MaxQueries == 3

\* the request of useGraphQLQuery's query() not yet issued past its fetch
NewQuery == [pc |-> "fetch", aborted |-> FALSE, wrote |-> FALSE]

\* the data the server returns to request q: a later-issued request is
\* answered with fresher data for the same entity
QueryResponse(q) ==
  Obj([user |-> User(Str("1"), [name |-> Str("V" \o ToString(q))])])

QueryResponses == {"errors", "noData", "data"}

InitQueries == InitCache

\* query({ signal }) is called: execute() runs up to its await of fetch
IssueQuery ==
  /\ Len(queries) < MaxQueries
  /\ queries' = Append(queries, NewQuery)
  /\ UNCHANGED <<entities, optimisticLayers, optimisticIdCounter, muts,
                 writeLog, lastOp, lastRead>>

\* the AbortSignal of request q is aborted while the request is in flight
AbortQuery(q) ==
  /\ queries[q].pc \in {"fetch", "onResponse"}
  /\ ~queries[q].aborted
  /\ queries' = [queries EXCEPT ![q].aborted = TRUE]
  /\ UNCHANGED <<entities, optimisticLayers, optimisticIdCounter, muts,
                 writeLog, lastOp, lastRead>>

\* fetch rejects (aborted signal or network failure): execute() throws or
\* returns { data: undefined }, and query() throws before cache.write
FetchRejects(q) ==
  /\ queries[q].pc = "fetch"
  /\ queries' = [queries EXCEPT ![q].pc = "rejected"]
  /\ UNCHANGED <<entities, optimisticLayers, optimisticIdCounter, muts,
                 writeLog, lastOp, lastRead>>

\* fetch resolves and the body is parsed: a response with errors or without
\* data makes query() throw; one with data awaits the onResponse interceptor
FetchResolves(q, response) ==
  /\ queries[q].pc = "fetch"
  /\ ~queries[q].aborted
  /\ queries' = [queries EXCEPT
                   ![q].pc = IF response = "data" THEN "onResponse"
                             ELSE "rejected"]
  /\ UNCHANGED <<entities, optimisticLayers, optimisticIdCounter, muts,
                 writeLog, lastOp, lastRead>>

\* the interceptor returns, execute() returns the result and query()
\* continues: no errors, data present, cache.write(data)
ExecuteReturns(q) ==
  /\ queries[q].pc = "onResponse"
  /\ write(QueryResponse(q))
  /\ writeLog' = Append(writeLog, normalize(QueryResponse(q)))
  /\ queries' = [queries EXCEPT ![q].pc = "done", ![q].wrote = TRUE]
  /\ lastOp' = NoOp("write")
  /\ UNCHANGED <<optimisticIdCounter, muts, lastRead>>

NextQueries ==
  \/ IssueQuery
  \/ \E q \in DOMAIN queries : AbortQuery(q)
  \/ \E q \in DOMAIN queries : FetchRejects(q)
  \/ \E q \in DOMAIN queries : \E response \in QueryResponses :
       FetchResolves(q, response)
  \/ \E q \in DOMAIN queries : ExecuteReturns(q)

SpecQueries == InitQueries /\ [][NextQueries]_vars

----------------------------------------------------------------------------
(* Reads of reference graphs: read, readFragment, normalize then denormalize *)

\* responses whose entities reference each other: a nested reference, a
\* two-cycle, a self-reference, a diamond, a list of references
GraphPayloads ==
  { Obj([user |-> User(Str("1"),
                       [name |-> Str("A"), email |-> Str("e"),
                        phone |-> Str("555"),
                        friend |-> User(Str("2"), [name |-> Str("B")])])]),
    Obj([user |-> User(Str("1"),
                       [friend |-> User(Str("2"),
                                        [friend |-> User(Str("1"), EmptyMap)])])]),
    Obj([user |-> User(Str("3"),
                       [name |-> Str("S"),
                        friend |-> User(Str("3"), EmptyMap)])]),
    Obj([user |-> User(Str("1"),
                       [friend |-> User(Str("2"),
                                        [author |-> User(Str("4"),
                                                         [name |-> Str("D")])]),
                        author |-> User(Str("3"),
                                        [author |-> User(Str("4"),
                                                         [email |-> Str("d@x")])])])]),
    Obj([post |-> Obj([__typename |-> Str("Post"), id |-> Str("1"),
                       name |-> Str("T"),
                       address |-> Obj([city |-> Str("X")]),
                       users |-> List(<<User(Str("2"), EmptyMap),
                                        User(Str("4"), EmptyMap)>>)])]) }

GraphIds == {"User:1", "User:2", "User:3", "User:4", "Post:1"}

\* the entities evicted while other records still reference them
EvictIds == {"User:2", "User:4"}

\* fragment documents: the fields name and email; fields with references
\* and an alias; an operation before the fragment and a fragment spread; a
\* document without a fragment definition
FragmentDocuments ==
  { Document(<<Definition("FragmentDefinition",
                          <<Field("name"), Field("email")>>)>>),
    Document(<<Definition("FragmentDefinition",
                          <<Field("name"), Field("friend"), Field("users"),
                            AliasedField("writer", "author")>>)>>),
    Document(<<Definition("OperationDefinition", <<Field("phone")>>),
               Definition("FragmentDefinition",
                          <<Field("id"), FragmentSpread("Other"),
                            Field("address")>>)>>),
    Document(<<Definition("OperationDefinition", <<Field("name")>>)>>) }

RoundTripPayloads == WritePayloads \cup GraphPayloads

\* responses where one entity occurs more than once with different values
\* of a field: inside another occurrence of itself, twice in a list, and
\* inside itself two levels down
RepeatPayloads ==
  { Obj([user |-> User(Str("1"),
                       [name |-> Str("Outer"), email |-> Str("o@x"),
                        friend |-> User(Str("1"),
                                        [name |-> Str("Inner"),
                                         phone |-> Str("1")])])]),
    Obj([users |-> List(<<User(Str("2"), [name |-> Str("First"),
                                          email |-> Str("f@x")]),
                          User(Str("2"), [name |-> Str("Second"),
                                          phone |-> Str("2")])>>)]),
    Obj([user |-> User(Str("1"),
                       [name |-> Str("Top"),
                        friend |-> User(Str("2"),
                                        [name |-> Str("B"),
                                         friend |-> User(Str("1"),
                                                         [name |-> Str("Deep"),
                                                          email |-> Str("d@x")])])]),
         author |-> User(Str("2"), [name |-> Str("Last")])]) }

NormalizePayloads == GraphPayloads \cup RepeatPayloads

\* the last read: its operation, its arguments and what it returned
ReadOp(op, id, fragment, payload, result) ==
  [op |-> op, id |-> id, fragment |-> fragment, payload |-> payload,
   result |-> result]

\* a query's continuation calls cache.write(data)
GraphWrite(data) ==
  /\ write(data)
  /\ lastOp' = NoOp("write")
  /\ lastRead' = NoRead
  /\ UNCHANGED <<optimisticIdCounter, muts, writeLog, queries>>

\* evict(id) of a whole record, references to it left in place
EvictEntity(id) ==
  /\ evict(Str(id), "")
  /\ lastOp' = NoOp("evict")
  /\ lastRead' = NoRead
  /\ UNCHANGED <<optimisticIdCounter, muts, writeLog, queries>>

\* read of a reference to id
ReadEntity(id) ==
  /\ lastRead' = ReadOp("read", id, NoFragment, Undef, read(toEntityRef(id)))
  /\ UNCHANGED <<entities, optimisticLayers, optimisticIdCounter, muts,
                 writeLog, lastOp, queries>>

\* readFragment(id, fragment)
ReadFragment(id, fragment) ==
  /\ lastRead' = ReadOp("readFragment", id, fragment, Undef,
                        readFragment(Str(id), fragment))
  /\ UNCHANGED <<entities, optimisticLayers, optimisticIdCounter, muts,
                 writeLog, lastOp, queries>>

\* denormalize(normalize(payload).result, normalize(payload).entities)
RoundTrip(payload) ==
  /\ lastRead' = ReadOp("roundTrip", "", NoFragment, payload,
                        LET n == normalize(payload)
                        IN denormalize(n.result, n.entities, {}))
  /\ UNCHANGED <<entities, optimisticLayers, optimisticIdCounter, muts,
                 writeLog, lastOp, queries>>

\* one pass of normalize(payload): its result and its entity map
NormalizePass(payload) ==
  /\ lastRead' = ReadOp("normalize", "", NoFragment, payload,
                        LET n == normalize(payload)
                        IN [k |-> "pass", result |-> n.result,
                            entities |-> n.entities])
  /\ UNCHANGED <<entities, optimisticLayers, optimisticIdCounter, muts,
                 writeLog, lastOp, queries>>

NextReads ==
  \/ \E data \in GraphPayloads : GraphWrite(data)
  \/ \E id \in EvictIds : EvictEntity(id)
  \/ \E id \in GraphIds : ReadEntity(id)
  \/ \E id \in GraphIds : \E fragment \in FragmentDocuments \cup {NoFragment} :
       ReadFragment(id, fragment)
  \/ \E payload \in RoundTripPayloads : RoundTrip(payload)
  \/ \E payload \in NormalizePayloads : NormalizePass(payload)

SpecReads == InitCache /\ [][NextReads]_vars

----------------------------------------------------------------------------
(* Identity of response objects: toReference(object) *)

\* a field left out of an object, or present with the value
Absent == EmptyMap

Present(name, value) == (name :> value)

\* objects of types without a policy, or without a usable type
DefaultObjects ==
  { typename @@ id @@ uid @@ name :
      typename \in {Absent, Present("__typename", Str("")),
                    Present("__typename", Str("User"))},
      id \in {Absent, Present("id", Str("1")), Present("id", Num(1)),
              Present("id", Null), Present("id", Bool(TRUE)),
              Present("id", Obj([name |-> Str("x")]))},
      uid \in {Absent, Present("_id", Str("9")), Present("_id", Num(7))},
      name \in {Absent, Present("name", Str("A"))} }

\* objects of type Product, keyed by the list [sku, warehouse]
ProductObjects ==
  { Present("__typename", Str("Product")) @@ sku @@ warehouse @@ id @@ name :
      sku \in {Absent, Present("sku", Str("X")), Present("sku", Num(5)),
               Present("sku", Null), Present("sku", Obj([name |-> Str("x")]))},
      warehouse \in {Absent, Present("warehouse", Str("W1")),
                     Present("warehouse", Bool(TRUE))},
      id \in {Absent, Present("id", Str("1"))},
      name \in {Absent, Present("name", Str("A"))} }

\* objects of type Tag, keyed by the function KeyBySlug
TagObjects ==
  { Present("__typename", Str("Tag")) @@ slug @@ id @@ name :
      slug \in {Absent, Present("slug", Str("s")), Present("slug", Str("")),
                Present("slug", Num(3))},
      id \in {Absent, Present("id", Str("1"))},
      name \in {Absent, Present("name", Str("A"))} }

IdentityObjects == DefaultObjects \cup ProductObjects \cup TagObjects

\* cache.toReference(object)
CallToReference(object) ==
  /\ lastRead' = ReadOp("toReference", "", NoFragment, Obj(object),
                        toReference(object))
  /\ UNCHANGED <<entities, optimisticLayers, optimisticIdCounter, muts,
                 writeLog, lastOp, queries>>

NextIdentity == \E object \in IdentityObjects : CallToReference(object)

SpecIdentity == InitCache /\ [][NextIdentity]_vars

----------------------------------------------------------------------------
(* Calls of the cache operations with their arguments, what they returned
   and the state they were called in; types with policies among the data *)

\* an object of a type keyed by id
Entity(typename, id, fields) ==
  Obj(Spread([__typename |-> Str(typename), id |-> Str(id)], fields))

\* an object of type Label, keyed by the function KeyByName
Label(fields) == Obj(Spread([__typename |-> Str("Label")], fields))

\* responses with a plain entity, with types that have a merge policy
\* (Profile, the field users of Feed), and with Label objects the key
\* function throws for, at the root and below an entity, after another
\* entity of the payload has been normalized
CallPayloads ==
  { Obj([user |-> User(Str("1"), [name |-> Str("A")])]),
    Obj([profile |-> Entity("Profile", "1", [name |-> Str("P1")])]),
    Obj([profile |-> Entity("Profile", "1",
                            [name |-> Str("P2"), email |-> Str("p@x")])]),
    Obj([feed |-> Entity("Feed", "1", [users |-> List(<<Str("a")>>)])]),
    Obj([feed |-> Entity("Feed", "1", [users |-> List(<<Str("b")>>)])]),
    Obj([label |-> Label([id |-> Str("1")])]),
    Obj([user |-> User(Str("1"), [name |-> Str("Z"),
                                  friend |-> User(Str("3"), [name |-> Str("Y")]),
                                  author |-> Label([id |-> Str("1")])])]) }

LayerCallPayloads ==
  { Obj([user |-> User(Str("1"), [name |-> Str("O1")])]),
    Obj([users |-> List(<<User(Str("2"), [name |-> Str("O2")]),
                          Label([id |-> Str("1")])>>)]) }

\* the id argument: an EntityId, an object resolved to one, an object
\* without discriminator, an object the key function throws for
CallIds ==
  { Str("User:1"), Obj([__typename |-> Str("User"), id |-> Str("2")]),
    Obj([name |-> Str("x")]), Label([id |-> Str("1")]) }

CallData == { [name |-> Str("A2")] }

CallFields == {"", "name"}

\* the fragment references handed to useFragment
FragmentRefs ==
  { Null, Undef,
    Obj([__typename |-> Str("User"), id |-> Str("1")]),
    Obj([__typename |-> Str("User"), id |-> Str("2")]),
    Obj([id |-> Str("1")]),
    Obj([__typename |-> Str("User")]),
    Obj([__typename |-> Str("User"), id |-> Null]) }

NameFragment ==
  Document(<<Definition("FragmentDefinition", <<Field("name")>>)>>)

\* a call: the operation, its arguments, what it returned (Thrown when it
\* threw), and the base store and the layers it was called in
Call(op, target, field, data, returned) ==
  [op |-> op, target |-> target, field |-> field, data |-> data,
   returned |-> returned, entities |-> entities, layers |-> optimisticLayers]

WriteCall(data) ==
  /\ write(data)
  /\ lastOp' = Call("write", Undef, "", data, writeReturns(data))
  /\ lastRead' = NoRead
  /\ UNCHANGED <<optimisticIdCounter, muts, writeLog, queries>>

AddLayerCall(data) ==
  /\ optimisticLayers = <<>>
  /\ addOptimisticLayer("L1", data)
  /\ lastOp' = Call("addOptimisticLayer", Undef, "", data, writeReturns(data))
  /\ lastRead' = NoRead
  /\ UNCHANGED <<optimisticIdCounter, muts, writeLog, queries>>

RemoveLayerCall ==
  /\ optimisticLayers # <<>>
  /\ removeOptimisticLayer("L1")
  /\ lastOp' = Call("removeOptimisticLayer", Undef, "", Undef, Undef)
  /\ lastRead' = NoRead
  /\ UNCHANGED <<optimisticIdCounter, muts, writeLog, queries>>

WriteFragmentCall(id, data) ==
  /\ writeFragment(id, data)
  /\ lastOp' = Call("writeFragment", id, "", Obj(data), writeFragmentReturns(id))
  /\ lastRead' = NoRead
  /\ UNCHANGED <<optimisticIdCounter, muts, writeLog, queries>>

EvictCall(id, fieldName) ==
  /\ evict(id, fieldName)
  /\ lastOp' = Call("evict", id, fieldName, Undef,
                    evictResult(id, fieldName).returned)
  /\ lastRead' = NoRead
  /\ UNCHANGED <<optimisticIdCounter, muts, writeLog, queries>>

ReadFragmentCall(id) ==
  /\ lastRead' = ReadOp("readFragment", id, NoFragment, Undef,
                        readFragment(id, NoFragment))
  /\ lastOp' = NoOp("read")
  /\ UNCHANGED <<entities, optimisticLayers, optimisticIdCounter, muts,
                 writeLog, queries>>

ToReferenceCall(object) ==
  /\ lastRead' = ReadOp("toReference", object, NoFragment, Undef,
                        toReference(object.f))
  /\ lastOp' = NoOp("read")
  /\ UNCHANGED <<entities, optimisticLayers, optimisticIdCounter, muts,
                 writeLog, queries>>

UseFragmentCall(ref, throwOnMissing) ==
  /\ lastRead' = ReadOp("useFragment", ref, NameFragment, Bool(throwOnMissing),
                        useFragment(NameFragment, ref, throwOnMissing))
  /\ lastOp' = NoOp("read")
  /\ UNCHANGED <<entities, optimisticLayers, optimisticIdCounter, muts,
                 writeLog, queries>>

NextCalls ==
  \/ \E data \in CallPayloads : WriteCall(data)
  \/ \E data \in LayerCallPayloads : AddLayerCall(data)
  \/ RemoveLayerCall
  \/ \E id \in CallIds : \E data \in CallData : WriteFragmentCall(id, data)
  \/ \E id \in CallIds : \E fieldName \in CallFields : EvictCall(id, fieldName)
  \/ \E id \in CallIds : ReadFragmentCall(id)
  \/ \E id \in CallIds \ {Str("User:1")} : ToReferenceCall(id)
  \/ \E ref \in FragmentRefs : \E throwOnMissing \in BOOLEAN :
       UseFragmentCall(ref, throwOnMissing)

SpecCalls == InitCache /\ [][NextCalls]_vars

----------------------------------------------------------------------------
(* Stored entities looked up by useFragment through a fragment reference *)

\* responses with one entity per identity policy: default id, default _id
\* fallback, key-field list, key function
LookupPayloads ==
  { Obj([user |-> User(Str("1"), [name |-> Str("A")])]),
    Obj([user |-> User(Str("1"), [name |-> Str("B"), email |-> Str("e")])]),
    Obj([user |-> Obj([__typename |-> Str("User"), _id |-> Str("5"),
                       name |-> Str("E")])]),
    Obj([post |-> Obj([__typename |-> Str("Product"), sku |-> Str("X"),
                       warehouse |-> Str("W1"), name |-> Str("P")])]),
    Obj([post |-> Obj([__typename |-> Str("Tag"), slug |-> Str("s"),
                       name |-> Str("T")])]) }

\* fragment references: the type discriminator and the identity fields of
\* each of those entities
LookupRefs ==
  { Obj([__typename |-> Str("User"), id |-> Str("1")]),
    Obj([__typename |-> Str("User"), _id |-> Str("5")]),
    Obj([__typename |-> Str("Product"), sku |-> Str("X"),
         warehouse |-> Str("W1")]),
    Obj([__typename |-> Str("Tag"), slug |-> Str("s")]) }

\* a query's continuation calls cache.write(data)
LookupWrite(data) ==
  /\ write(data)
  /\ lastOp' = NoOp("write")
  /\ lastRead' = NoRead
  /\ UNCHANGED <<optimisticIdCounter, muts, writeLog, queries>>

\* a component evaluates useFragment(fragmentDoc, ref, { throwOnMissing })
LookupFragment(ref, throwOnMissing) ==
  /\ lastRead' = ReadOp("useFragment", ref, NameFragment, Bool(throwOnMissing),
                        useFragment(NameFragment, ref, throwOnMissing))
  /\ UNCHANGED <<entities, optimisticLayers, optimisticIdCounter, muts,
                 writeLog, lastOp, queries>>

NextLookup ==
  \/ \E data \in LookupPayloads : LookupWrite(data)
  \/ \E ref \in LookupRefs : \E throwOnMissing \in BOOLEAN :
       LookupFragment(ref, throwOnMissing)

SpecLookup == InitCache /\ [][NextLookup]_vars

----------------------------------------------------------------------------
(* createGraphQLClient.execute with its interceptors and retries, called by
   the query of useGraphQLQuery or the mutation of useGraphQLMutation.
   queries holds the calls of execute of the operation: the caller's
   first, then one per retry() that re-executed the request. An onError
   interceptor that calls retry() awaits its promise before it returns *)

MaxAttempts == 3

\* the maxRetries option of the client
RetryLimits == {0, 1}

\* a parsed response body: whether it has a non-empty errors list, whether
\* its data is defined
Body(errors, data) == [errors |-> errors, data |-> data]

Bodies == {Body(errors, data) : errors \in BOOLEAN, data \in BOOLEAN}

NoBody == [errors |-> FALSE, data |-> FALSE, none |-> TRUE]

\* the { data: undefined } execute returns for a suppressed error
UndefinedData == Body(FALSE, FALSE)

\* what onError returns: null, the GraphQLClientError, another Error
Handled == {"null", "client", "plain"}

\* execute(document, requestOptions, retryCount) up to its await of fetch,
\* in the closure of a client created with the options
NewAttempt(retryCount, options) ==
  [pc |-> "fetch", retryCount |-> retryCount, options |-> options,
   failure |-> "", error |-> "", result |-> NoBody, handled |-> <<>>,
   onErrorCalls |-> 0, onResponseCalls |-> 0, retried |-> FALSE]

ClientOptions(maxRetries, onError, onResponse) ==
  [maxRetries |-> maxRetries, onError |-> onError, onResponse |-> onResponse]

\* the response throws in query() / mutation(): errors, or data undefined
operationThrowsOnData(response) == ~response.data

operationThrows(response) == response.errors \/ ~response.data

\* the data of the response of the operation
OperationData(operation) ==
  IF operation = "query" THEN QueryData ELSE ServerData(1)

\* the operation that settled last: the response execute returned (NoBody
\* when it rejected), the useNormalizedCache option, whether the operation
\* threw, and the base store it settled on
Settled(operation, response, useCache, threw) ==
  [op |-> operation, response |-> response, useCache |-> useCache,
   returned |-> IF threw THEN Thrown ELSE Undef, entities |-> entities]

\* the catch block of execute for an error that is no GraphQLClientError:
\* it is wrapped and handed to onError when there is one
caught(attempt) ==
  IF attempt.options.onError
  THEN [attempt EXCEPT !.pc = "onErrorNetwork", !.error = "client",
                       !.onErrorCalls = @ + 1, !.retried = FALSE]
  ELSE [attempt EXCEPT !.pc = "rejected", !.error = "client"]

\* a GraphQLClientError thrown in the try block: the catch block rethrows it
rethrown(attempt) == [attempt EXCEPT !.pc = "rejected", !.error = "client"]

\* an earlier query has written its data into the store
EarlierWrite ==
  /\ queries = <<>>
  /\ lastOp.op = "init"
  /\ write(QueryResponse(1))
  /\ lastOp' = NoOp("write")
  /\ UNCHANGED <<optimisticIdCounter, muts, writeLog, queries, lastRead>>

\* query() / mutation() calls client.execute(document, options)
Execute(maxRetries, onError, onResponse) ==
  /\ queries = <<>>
  /\ queries' = <<NewAttempt(0, ClientOptions(maxRetries, onError, onResponse))>>
  /\ UNCHANGED <<entities, optimisticLayers, optimisticIdCounter, muts,
                 writeLog, lastOp, lastRead>>

\* fetch rejects, or response.json() throws: an Error that is no
\* GraphQLClientError reaches the catch block
FetchFails(a) ==
  /\ queries[a].pc = "fetch"
  /\ queries' = [queries EXCEPT ![a] = caught([queries[a] EXCEPT !.failure = "network"])]
  /\ UNCHANGED <<entities, optimisticLayers, optimisticIdCounter, muts,
                 writeLog, lastOp, lastRead>>

\* the response's status is not ok: a GraphQLClientError is thrown in the try
\* block
ResponseNotOk(a) ==
  /\ queries[a].pc = "fetch"
  /\ queries' = [queries EXCEPT ![a] = rethrown([queries[a] EXCEPT !.failure = "http"])]
  /\ UNCHANGED <<entities, optimisticLayers, optimisticIdCounter, muts,
                 writeLog, lastOp, lastRead>>

\* the response is ok and its body parsed
ResponseArrives(a, body) ==
  /\ queries[a].pc = "fetch"
  /\ queries' = [queries EXCEPT ![a] =
       IF body.errors
       THEN IF queries[a].options.onError
            THEN [queries[a] EXCEPT !.pc = "onErrorGraphQL", !.failure = "graphql",
                                    !.error = "client", !.result = body,
                                    !.onErrorCalls = @ + 1]
            ELSE rethrown([queries[a] EXCEPT !.failure = "graphql"])
       ELSE IF queries[a].options.onResponse
            THEN [queries[a] EXCEPT !.pc = "onResponse", !.result = body,
                                    !.onResponseCalls = @ + 1]
            ELSE [queries[a] EXCEPT !.pc = "resolved", !.result = body]]
  /\ UNCHANGED <<entities, optimisticLayers, optimisticIdCounter, muts,
                 writeLog, lastOp, lastRead>>

\* the onResponse interceptor returns the response, possibly another one
OnResponseReturns(a, body) ==
  /\ queries[a].pc = "onResponse"
  /\ queries' = [queries EXCEPT ![a].pc = "resolved", ![a].result = body]
  /\ UNCHANGED <<entities, optimisticLayers, optimisticIdCounter, muts,
                 writeLog, lastOp, lastRead>>

\* the onResponse interceptor throws, inside the try block
OnResponseThrows(a, error) ==
  /\ queries[a].pc = "onResponse"
  /\ queries' = [queries EXCEPT ![a] =
       IF error = "client" THEN rethrown([queries[a] EXCEPT !.result = NoBody])
       ELSE caught([queries[a] EXCEPT !.result = NoBody, !.failure = "network"])]
  /\ UNCHANGED <<entities, optimisticLayers, optimisticIdCounter, muts,
                 writeLog, lastOp, lastRead>>

\* the running onError interceptor calls retry() and the request is executed
\* again: always in the GraphQL-errors branch, below maxRetries in the catch
\* block
RetryExecutes(a) ==
  /\ queries[a].pc \in {"onErrorGraphQL", "onErrorNetwork"}
  /\ ~queries[a].retried
  /\ Len(queries) < MaxAttempts
  /\ queries[a].pc = "onErrorNetwork" =>
       queries[a].retryCount < queries[a].options.maxRetries
  /\ queries' = Append([queries EXCEPT ![a].retried = TRUE],
                       NewAttempt(queries[a].retryCount + 1, queries[a].options))
  /\ UNCHANGED <<entities, optimisticLayers, optimisticIdCounter, muts,
                 writeLog, lastOp, lastRead>>

\* the running onError interceptor of the catch block calls retry() at
\* maxRetries: retry() throws the error, nothing is executed
RetryRefused(a) ==
  /\ queries[a].pc = "onErrorNetwork"
  /\ ~queries[a].retried
  /\ queries[a].retryCount >= queries[a].options.maxRetries
  /\ queries' = [queries EXCEPT ![a].retried = TRUE]
  /\ UNCHANGED <<entities, optimisticLayers, optimisticIdCounter, muts,
                 writeLog, lastOp, lastRead>>

AttemptSettled(a) == queries[a].pc \in {"resolved", "rejected"}

\* the onError interceptor returns null or an error (throwing the error has
\* the same effect): in the try block the error is thrown into the catch
\* block, in the catch block out of execute
OnErrorReturns(a, handled) ==
  /\ queries[a].pc \in {"onErrorGraphQL", "onErrorNetwork"}
  /\ \A b \in (a + 1)..Len(queries) : AttemptSettled(b)
  /\ LET attempt == [queries[a] EXCEPT !.handled = Append(@, handled)]
     IN queries' = [queries EXCEPT ![a] =
          IF queries[a].pc = "onErrorGraphQL"
          THEN IF handled = "null" THEN [attempt EXCEPT !.pc = "resolved"]
               ELSE IF handled = "client"
               THEN rethrown([attempt EXCEPT !.result = NoBody])
               ELSE caught([attempt EXCEPT !.result = NoBody])
          ELSE IF handled = "null"
               THEN [attempt EXCEPT !.pc = "resolved", !.result = UndefinedData]
               ELSE [attempt EXCEPT !.pc = "rejected", !.error = handled]]
  /\ UNCHANGED <<entities, optimisticLayers, optimisticIdCounter, muts,
                 writeLog, lastOp, lastRead>>

\* the caller's execute has settled and query() / mutation() continues: it
\* throws for a rejection, for errors and for undefined data, and otherwise
\* writes the data when useNormalizedCache is not false
OperationSettles(operation, useCache) ==
  /\ queries # <<>>
  /\ lastOp.op \in {"init", "write"}
  /\ AttemptSettled(1)
  /\ LET response == queries[1].result
         threw == queries[1].pc = "rejected" \/ operationThrows(response)
     IN /\ IF ~threw /\ useCache
           THEN write(OperationData(operation))
           ELSE UNCHANGED <<entities, optimisticLayers>>
        /\ lastOp' = Settled(operation, response, useCache, threw)
  /\ UNCHANGED queries
  /\ UNCHANGED <<optimisticIdCounter, muts, writeLog, lastRead>>

NextClient ==
  \/ EarlierWrite
  \/ \E maxRetries \in RetryLimits : \E onError \in BOOLEAN :
       \E onResponse \in BOOLEAN : Execute(maxRetries, onError, onResponse)
  \/ \E a \in DOMAIN queries : FetchFails(a)
  \/ \E a \in DOMAIN queries : ResponseNotOk(a)
  \/ \E a \in DOMAIN queries : \E body \in Bodies : ResponseArrives(a, body)
  \/ \E a \in DOMAIN queries : \E body \in Bodies : OnResponseReturns(a, body)
  \/ \E a \in DOMAIN queries : \E error \in {"client", "plain"} :
       OnResponseThrows(a, error)
  \/ \E a \in DOMAIN queries : RetryExecutes(a)
  \/ \E a \in DOMAIN queries : RetryRefused(a)
  \/ \E a \in DOMAIN queries : \E handled \in Handled : OnErrorReturns(a, handled)
  \/ \E operation \in {"query", "mutation"} : \E useCache \in BOOLEAN :
       OperationSettles(operation, useCache)

SpecClient == InitCache /\ [][NextClient]_vars

----------------------------------------------------------------------------
(* Properties of write sequences *)

IsScalar(value) == value.k \in {"str", "num", "bool", "null"}

\* indices of the writes whose payload gave field f of entity id
WritesOf(id, f) ==
  {i \in 1..Len(writeLog) :
     id \in DOMAIN writeLog[i].entities /\ f \in DOMAIN writeLog[i].entities[id]}

Latest(S) == CHOOSE i \in S : \A j \in S : j <= i

LastWritten(id, f) == writeLog[Latest(WritesOf(id, f))].entities[id][f]

WrittenFields(id) ==
  UNION {DOMAIN writeLog[i].entities[id] :
           i \in {j \in 1..Len(writeLog) : id \in DOMAIN writeLog[j].entities}}

\* the entity positions of a query result: <<id, what read() shows there>>
Positions(r, o) ==
  LET refKeys == {key \in DOMAIN r.f : isEntityRef(r.f[key])}
      listKeys == {key \in DOMAIN r.f : r.f[key].k = "list"}
  IN {<<RefId(r.f[key]), o.f[key]>> : key \in refKeys}
     \cup UNION {{<<RefId(r.f[key].items[i]), o.f[key].items[i]>> :
                    i \in {j \in 1..Len(r.f[key].items) :
                             isEntityRef(r.f[key].items[j])}} :
                 key \in listKeys}

\* C1: the store holds one record per identity, and reading the result of
\* any earlier query shows, at each position of an entity, the scalar field
\* values of the latest write that gave them (a later query's values).
C1_SharedCopy ==
  /\ \A k1 \in DOMAIN entities : \A k2 \in DOMAIN entities :
       getEntityId(entities[k1], typePolicies)
         = getEntityId(entities[k2], typePolicies) => k1 = k2
  /\ \A i \in 1..Len(writeLog) :
       \A p \in Positions(writeLog[i].result, read(writeLog[i].result)) :
         /\ p[2].k = "obj"
         /\ \A f \in WrittenFields(p[1]) :
              IsScalar(LastWritten(p[1], f)) =>
                f \in DOMAIN p[2].f /\ p[2].f[f] = LastWritten(p[1], f)

C1_Witness ==
  /\ Len(writeLog) = 2
  /\ writeLog[1].result = Obj([user |-> toEntityRef("User:1")])
  /\ writeLog[1].entities["User:1"]["name"] = Str("A")
  /\ "users" \in DOMAIN writeLog[2].result.f
  /\ writeLog[2].entities["User:1"]["name"] = Str("B")
  /\ read(writeLog[1].result).f["user"].f["name"] = Str("B")

\* C2: a write keeps every field of an existing record that the incoming
\* record lacks, with its old value, and every incoming field is present
\* afterwards.
C2_MergeAccumulation ==
  [][Len(writeLog') = Len(writeLog) + 1 =>
       LET inc == writeLog'[Len(writeLog')].entities
       IN /\ \A id \in DOMAIN entities :
               /\ id \in DOMAIN entities'
               /\ \A f \in DOMAIN entities[id] :
                    (id \notin DOMAIN inc \/ f \notin DOMAIN inc[id]) =>
                      /\ f \in DOMAIN entities'[id]
                      /\ entities'[id][f] = entities[id][f]
          /\ \A id \in DOMAIN inc :
               /\ id \in DOMAIN entities'
               /\ \A f \in DOMAIN inc[id] : f \in DOMAIN entities'[id]]_vars

C2_Witness ==
  /\ Len(writeLog) = 2
  /\ writeLog[1].entities =
       ("User:1" :> [__typename |-> Str("User"), id |-> Str("1"),
                     name |-> Str("A")])
  /\ writeLog[2].entities =
       ("User:1" :> [__typename |-> Str("User"), id |-> Str("1"),
                     email |-> Str("a@x")])
  /\ entities =
       ("User:1" :> [__typename |-> Str("User"), id |-> Str("1"),
                     name |-> Str("A"), email |-> Str("a@x")])

\* C3: each field of a stored record holds the value of the most recent
\* write that contained that field for that EntityId.
C3_LaterWins ==
  \A id \in DOMAIN entities : \A f \in DOMAIN entities[id] :
    /\ WritesOf(id, f) # {}
    /\ entities[id][f] = LastWritten(id, f)

C3_Witness ==
  /\ Len(writeLog) = 2
  /\ "User:1" \in DOMAIN writeLog[1].entities
  /\ "User:1" \in DOMAIN writeLog[2].entities
  /\ Get(writeLog[1].entities["User:1"], "name") = Str("A")
  /\ Get(writeLog[2].entities["User:1"], "name") = Str("A2")
  /\ entities["User:1"]["name"] = Str("A2")

----------------------------------------------------------------------------
(* Properties of the store under the public operations *)

\* a value that neither is nor contains an object with a resolvable identity
RECURSIVE NoRawEntity(_)
NoRawEntity(value) ==
  IF value.k = "list" THEN
    \A i \in 1..Len(value.items) : NoRawEntity(value.items[i])
  ELSE IF value.k = "obj" THEN
    /\ getEntityId(value.f, typePolicies) = NoEntityId
    /\ \A key \in DOMAIN value.f : NoRawEntity(value.f[key])
  ELSE TRUE

\* C4: no field value of a record of the base store is, or contains, a raw
\* object with a resolvable identity; nested entities are references only.
C4_OnlyReferences ==
  \A id \in DOMAIN entities : \A f \in DOMAIN entities[id] :
    NoRawEntity(entities[id][f])

\* C5: every record of the base store resolves, by its own type
\* discriminator and identity fields, to the key it is stored under.
C5_RecordCarriesIdentity ==
  \A id \in DOMAIN entities : getEntityId(entities[id], typePolicies) = id

\* C6: addOptimisticLayer and removeOptimisticLayer leave the base entity
\* map unchanged.
C6_LayersLeaveBase ==
  [][lastOp'.op \in {"add", "remove"} => entities' = entities]_vars

C6_Witness ==
  /\ lastOp.op = "add"
  /\ "User:1" \in DOMAIN entities
  /\ entities["User:1"]["name"] = Str("A")
  /\ getEntities["User:1"]["name"] = Str("O1")

\* C7 as stated: for any handle, addOptimisticLayer(handle, data) followed
\* immediately by removeOptimisticLayer(handle) restores the composed view.
C7_ReversibleAnyHandle ==
  (lastOp.op = "remove" /\ lastOp.afterAdd) => getEntities = lastOp.view

\* C7: when the handle is not the id of a layer already in the list,
\* addOptimisticLayer(handle, data) followed immediately by
\* removeOptimisticLayer(handle) restores the composed view; with no other
\* layer the view is the base store.
C7_Reversible ==
  (lastOp.op = "remove" /\ lastOp.afterAdd /\ lastOp.fresh) =>
    /\ getEntities = lastOp.view
    /\ (optimisticLayers = <<>> => getEntities = entities)

\* a layer was added over the base and another layer, then removed
C7_Witness ==
  /\ lastOp.op = "remove"
  /\ lastOp.afterAdd
  /\ lastOp.fresh
  /\ Len(optimisticLayers) = 1
  /\ "User:1" \in DOMAIN entities
  /\ getEntities # entities

\* indices of the layers that set field f of entity id
LayersOf(id, f) ==
  {i \in 1..Len(optimisticLayers) :
     /\ id \in DOMAIN optimisticLayers[i].entities
     /\ f \in DOMAIN optimisticLayers[i].entities[id]}

\* C8: each field of the composed view holds the value of the most recently
\* added layer that sets it, and the base value when no layer sets it;
\* the view has exactly the fields the base or some layer sets.
C8_LayerPrecedence ==
  LET view == getEntities
  IN /\ DOMAIN view =
          (DOMAIN entities) \cup
          UNION {DOMAIN optimisticLayers[i].entities :
                   i \in 1..Len(optimisticLayers)}
     /\ \A id \in DOMAIN view :
          /\ \A f \in DOMAIN view[id] :
               IF LayersOf(id, f) # {}
               THEN view[id][f] =
                      optimisticLayers[Latest(LayersOf(id, f))].entities[id][f]
               ELSE id \in DOMAIN entities /\ f \in DOMAIN entities[id]
                    /\ view[id][f] = entities[id][f]
          /\ id \in DOMAIN entities => DOMAIN entities[id] \subseteq DOMAIN view[id]
          /\ \A i \in 1..Len(optimisticLayers) :
               id \in DOMAIN optimisticLayers[i].entities =>
                 DOMAIN optimisticLayers[i].entities[id] \subseteq DOMAIN view[id]

C8_Witness ==
  /\ Len(optimisticLayers) = 2
  /\ optimisticLayers[1].entities["User:1"]["name"] = Str("O1")
  /\ optimisticLayers[2].entities["User:1"]["name"] = Str("O2")
  /\ "User:1" \in DOMAIN entities
  /\ "address" \in DOMAIN entities["User:1"]
  /\ getEntities["User:1"]["name"] = Str("O2")
  /\ getEntities["User:1"]["email"] = Str("o@x")
  /\ getEntities["User:1"]["address"] = entities["User:1"]["address"]

----------------------------------------------------------------------------
(* Properties of mutations with an optimistic response *)

\* C9: the layer a mutation added in onMutate is no longer in the layer list
\* once the mutation has settled, whatever the outcome.
C9_LayerRemovedOnSettle ==
  \A m \in DOMAIN muts :
    (muts[m].pc = "settled" /\ muts[m].layerAdded # "") =>
      muts[m].layerAdded \notin LayerIdsOf(optimisticLayers)

\* C10: after a mutation with an optimistic response has failed, with no
\* other write in between, the base store is the one of the moment it
\* started and the composed view holds nothing of its optimistic layer.
C10_FailureCommitsNothing ==
  \A m \in DOMAIN muts :
    (/\ muts[m].pc = "settled"
     /\ muts[m].failed
     /\ muts[m].optimistic
     /\ ~muts[m].otherWrites) =>
      /\ entities = muts[m].baseAtStart
      /\ getEntities =
           ComposeView(entities,
                       SelectSeq(optimisticLayers,
                                 LAMBDA layer : layer.id # muts[m].layerAdded))

----------------------------------------------------------------------------
(* Properties of overlapping and aborted queries *)

\* the requests whose cache.write has landed
Writers == {q \in DOMAIN queries : queries[q].wrote}

\* the latest-issued request among those whose write has landed
NewestWriter == CHOOSE q \in Writers : \A r \in Writers : r <= q

\* C11: when overlapping requests for the same entity complete out of order,
\* the Store never holds the value of an earlier-issued request once the
\* write of a later-issued request has landed.
C11_StaleWriteRejected ==
  Writers # {} =>
    Get(entities, "User:1") = normalize(QueryResponse(NewestWriter)).entities["User:1"]

\* C12: a request whose AbortSignal was aborted while it was in flight never
\* reaches cache.write, whether its response arrived before or after the abort.
C12_AbortedNeverWrites ==
  \A q \in DOMAIN queries : queries[q].aborted => ~queries[q].wrote

----------------------------------------------------------------------------
(* Properties of eviction and clear *)

\* C13: in any state, with or without optimistic layers, after evict(id) of
\* a whole record every read of that id through the cache (getEntity,
\* readFragment, resolution of a reference to it) returns absent, and every
\* other record of the composed view is as it was before the evict.
C13_EvictionIsolation ==
  (lastOp.op = "evict" /\ lastOp.target # NoEntityId /\ lastOp.field = "") =>
    /\ getEntity(lastOp.target) = Undef
    /\ readFragment(Str(lastOp.target), NoFragment) = Null
    /\ read(toEntityRef(lastOp.target)) = Undef
    /\ \A e \in (DOMAIN lastOp.view) \ {lastOp.target} :
         Get(getEntities, e) = lastOp.view[e]

\* C14: clear() from any state leaves the base store and the layer list
\* empty, so the composed view is empty; the removeOptimisticLayer of a
\* mutation that was in flight during a clear changes neither of them.
C14_ClearEmptiesAll ==
  [][/\ lastOp'.op = "clear" =>
          /\ entities' = EmptyMap
          /\ optimisticLayers' = <<>>
          /\ ComposeView(entities', optimisticLayers') = EmptyMap
     /\ \A m \in DOMAIN muts :
          (/\ muts[m].cleared
           /\ muts[m].pc \in {"onSuccess", "onError"}
           /\ muts'[m].pc # muts[m].pc) =>
            /\ entities' = entities
            /\ optimisticLayers' = optimisticLayers]_vars

\* a mutation that added a layer, saw a clear while in flight, and has run
\* the removal of its layer; the store not empty again at that point
C14_Witness ==
  \E m \in DOMAIN muts :
    /\ muts[m].cleared
    /\ muts[m].pc = "settled"
    /\ muts[m].ctxLayerId # ""
    /\ lastOp.op \in {"onSuccess", "onError"}
    /\ optimisticLayers # <<>>

----------------------------------------------------------------------------
(* Properties of denormalization *)

\* the entity an object of a result stands for
IdentityOf(value) ==
  IF value.k = "obj" /\ ~isEntityRef(value)
  THEN getEntityId(value.f, typePolicies)
  ELSE NoEntityId

\* the values directly under a list or an object
Children(value) ==
  IF value.k = "list" THEN {value.items[i] : i \in DOMAIN value.items}
  ELSE IF value.k = "obj" THEN {value.f[key] : key \in DOMAIN value.f}
  ELSE {}

\* the path below a value: its entity added when it stands for one
PathBelow(value, path) ==
  IF IdentityOf(value) # NoEntityId THEN path \cup {IdentityOf(value)} ELSE path

\* no entity of a result lies under itself
RECURSIVE NoReentry(_, _)
NoReentry(value, path) ==
  /\ IdentityOf(value) \notin path
  /\ \A child \in Children(value) : NoReentry(child, PathBelow(value, path))

\* every raw reference of a result names an entity above it on its path
RECURSIVE RawRefsAreAncestors(_, _)
RawRefsAreAncestors(value, path) ==
  IF isEntityRef(value) THEN RefId(value) \in path
  ELSE \A child \in Children(value) :
         RawRefsAreAncestors(child, PathBelow(value, path))

\* the fields of a record that hold a reference
RefFields(record) == {key \in DOMAIN record : isEntityRef(record[key])}

\* C15: denormalize of a reference terminates on cyclic graphs: no entity of
\* the result lies under itself, and where a record references itself, or
\* references a record that references it back, the position of re-entry
\* holds the raw reference {__ref: id}.
C15_CycleTermination ==
  (lastRead.op = "read" /\ lastRead.id \in DOMAIN getEntities) =>
    LET a == lastRead.id
    IN /\ NoReentry(lastRead.result, {})
       /\ \A f \in RefFields(getEntities[a]) :
            LET b == RefId(getEntities[a][f])
            IN /\ b = a => lastRead.result.f[f] = toEntityRef(a)
               /\ (b # a /\ b \in DOMAIN getEntities) =>
                    \A g \in RefFields(getEntities[b]) :
                      RefId(getEntities[b][g]) = a =>
                        lastRead.result.f[f].f[g] = toEntityRef(a)

\* User:1 and User:2 reference each other, User:3 references itself, and a
\* read has met the re-entry
C15_Witness ==
  /\ lastRead.op = "read"
  /\ \/ /\ lastRead.id = "User:1"
        /\ lastRead.result.k = "obj"
        /\ "friend" \in DOMAIN lastRead.result.f
        /\ lastRead.result.f["friend"].k = "obj"
        /\ "friend" \in DOMAIN lastRead.result.f["friend"].f
        /\ lastRead.result.f["friend"].f["friend"] = toEntityRef("User:1")
     \/ /\ lastRead.id = "User:3"
        /\ lastRead.result.k = "obj"
        /\ "friend" \in DOMAIN lastRead.result.f
        /\ lastRead.result.f["friend"] = toEntityRef("User:3")

\* resolution with the path handed down: a reference to an id on the path
\* stays a reference, one without a record is absent, any other is replaced
\* by its record resolved below it
RECURSIVE Resolved(_, _, _)
Resolved(value, ents, path) ==
  IF value.k = "list"
  THEN List([i \in DOMAIN value.items |-> Resolved(value.items[i], ents, path)])
  ELSE IF isEntityRef(value)
  THEN IF RefId(value) \in path THEN toEntityRef(RefId(value))
       ELSE IF RefId(value) \notin DOMAIN ents THEN Undef
       ELSE Resolved(Obj(ents[RefId(value)]), ents, path \cup {RefId(value)})
  ELSE IF value.k = "obj"
  THEN Obj([key \in DOMAIN value.f |-> Resolved(value.f[key], ents, path)])
  ELSE value

\* C16: the visited set of denormalize holds exactly the ids on the current
\* recursion path: the result is the one of a resolution with the path handed
\* down, the set is as it was once the call has returned, and a raw reference
\* stands only where its id is an ancestor on the same path.
C16_PathScopedVisited ==
  lastRead.op = "read" =>
    /\ lastRead.result = Resolved(toEntityRef(lastRead.id), getEntities, {})
    /\ denormalizeWalk(toEntityRef(lastRead.id), getEntities, {}).visited = {}
    /\ RawRefsAreAncestors(lastRead.result, {})

\* the diamond: User:1 references User:2 and User:3, both reference User:4,
\* and the read of User:1 holds User:4 as an object under both
C16_Witness ==
  /\ lastRead.op = "read"
  /\ lastRead.id = "User:1"
  /\ lastRead.result.k = "obj"
  /\ {"friend", "author"} \subseteq DOMAIN lastRead.result.f
  /\ \A f \in {"friend", "author"} :
       /\ lastRead.result.f[f].k = "obj"
       /\ "author" \in DOMAIN lastRead.result.f[f].f
       /\ IdentityOf(lastRead.result.f[f].f["author"]) = "User:4"
       /\ "name" \in DOMAIN lastRead.result.f[f].f["author"].f
       /\ lastRead.result.f[f].f["author"].f["name"] = Str("D")

\* a stored value against what was returned for it: absent where a reference
\* has no record, the record's fields where it has one, lists and objects
\* position by position, anything else as stored
RECURSIVE DanglingOnly(_, _, _, _)
DanglingOnly(value, out, ents, path) ==
  IF value.k = "list"
  THEN /\ out.k = "list"
       /\ DOMAIN out.items = DOMAIN value.items
       /\ \A i \in DOMAIN value.items :
            DanglingOnly(value.items[i], out.items[i], ents, path)
  ELSE IF isEntityRef(value)
  THEN IF RefId(value) \in path THEN TRUE
       ELSE IF RefId(value) \notin DOMAIN ents THEN out = Undef
       ELSE /\ out.k = "obj"
            /\ DOMAIN out.f = DOMAIN ents[RefId(value)]
            /\ \A key \in DOMAIN out.f :
                 DanglingOnly(ents[RefId(value)][key], out.f[key], ents,
                              path \cup {RefId(value)})
  ELSE IF value.k = "obj"
  THEN /\ out.k = "obj"
       /\ DOMAIN out.f = DOMAIN value.f
       /\ \A key \in DOMAIN value.f :
            DanglingOnly(value.f[key], out.f[key], ents, path)
  ELSE out = value

\* C17: a reference whose id is absent from the view (never written, or
\* evicted while referenced) yields undefined at its position, and every
\* other position of the result is resolved as without it.
C17_DanglingIsAbsent ==
  lastRead.op = "read" =>
    DanglingOnly(toEntityRef(lastRead.id), lastRead.result, getEntities, {})

\* User:2 was evicted while User:1 still references it: the read of User:1
\* holds undefined for it and the other reference resolved
C17_Witness ==
  /\ lastOp.op = "evict"
  /\ lastRead.op = "read"
  /\ lastRead.id = "User:1"
  /\ "User:2" \notin DOMAIN entities
  /\ lastRead.result.k = "obj"
  /\ {"friend", "author", "name"} \subseteq DOMAIN lastRead.result.f
  /\ lastRead.result.f["friend"] = Undef
  /\ lastRead.result.f["author"].k = "obj"
  /\ lastRead.result.f["name"] = Str("A")

----------------------------------------------------------------------------
(* Properties of normalize followed by denormalize *)

\* the entity objects of a payload in the order normalize completes them:
\* those inside an object before the object itself
RECURSIVE Occurrences(_), OccurrencesOfAll(_)
OccurrencesOfAll(values) ==
  IF values = <<>> THEN <<>>
  ELSE Occurrences(Head(values)) \o OccurrencesOfAll(Tail(values))

Occurrences(value) ==
  IF value.k = "list" THEN OccurrencesOfAll(value.items)
  ELSE IF value.k = "obj"
  THEN LET keys == Keys(value.f)
           inner == OccurrencesOfAll([i \in DOMAIN keys |-> value.f[keys[i]]])
       IN IF IdentityOf(value) # NoEntityId THEN Append(inner, value) ELSE inner
  ELSE <<>>

\* the fields of entity id over the first n occurrences, later ones winning
RECURSIVE MergedFields(_, _, _)
MergedFields(occs, n, id) ==
  IF n = 0 THEN EmptyMap
  ELSE IF IdentityOf(occs[n]) = id
  THEN Spread(MergedFields(occs, n - 1, id), occs[n].f)
  ELSE MergedFields(occs, n - 1, id)

\* the entities directly inside a value, not looking inside an entity
RECURSIVE DirectIds(_)
DirectIds(value) ==
  IF IdentityOf(value) # NoEntityId THEN {IdentityOf(value)}
  ELSE UNION {DirectIds(child) : child \in Children(value)}

\* the entities the merged fields of id hold
EdgesOf(occs, id) ==
  LET merged == MergedFields(occs, Len(occs), id)
  IN UNION {DirectIds(merged[key]) : key \in DOMAIN merged}

RECURSIVE ReachableIn(_, _, _)
ReachableIn(occs, ids, n) ==
  IF n = 0 THEN ids
  ELSE ReachableIn(occs, ids \cup UNION {EdgesOf(occs, id) : id \in ids}, n - 1)

\* no entity of the payload holds itself, directly or through others
Acyclic(payload) ==
  LET occs == Occurrences(payload)
      ids == {IdentityOf(occs[i]) : i \in DOMAIN occs}
  IN \A id \in ids : id \notin ReachableIn(occs, EdgesOf(occs, id), Len(occs))

\* the payload with every entity object replaced by its merged fields
RECURSIVE Expected(_, _)
Expected(value, occs) ==
  IF value.k = "list"
  THEN List([i \in DOMAIN value.items |-> Expected(value.items[i], occs)])
  ELSE IF value.k = "obj"
  THEN LET fields == IF IdentityOf(value) # NoEntityId
                     THEN MergedFields(occs, Len(occs), IdentityOf(value))
                     ELSE value.f
       IN Obj([key \in DOMAIN fields |-> Expected(fields[key], occs)])
  ELSE value

----------------------------------------------------------------------------
(* Properties of masked reads *)

HasFragmentDefinition(fragment) ==
  \E i \in DOMAIN fragment.definitions :
    fragment.definitions[i].kind = "FragmentDefinition"

\* the names the first fragment definition of a document declares
DeclaredFields(fragment) ==
  LET first == CHOOSE i \in DOMAIN fragment.definitions :
                 /\ fragment.definitions[i].kind = "FragmentDefinition"
                 /\ \A j \in 1..(i - 1) :
                      fragment.definitions[j].kind # "FragmentDefinition"
      selections == fragment.definitions[first].selections
  IN { IF selections[i].alias = "" THEN selections[i].name
       ELSE selections[i].alias :
         i \in {j \in DOMAIN selections : selections[j].kind = "Field"} }

\* a masked read of a record in the view, by a document with a fragment
MaskedRead ==
  /\ lastRead.op = "readFragment"
  /\ lastRead.fragment # NoFragment
  /\ HasFragmentDefinition(lastRead.fragment)
  /\ lastRead.id \in DOMAIN getEntities

\* C19: the keys of a masked read are exactly the declared fields present on
\* the record plus the type discriminator, with the record's values; every
\* field outside the declared set (such as id and phone) is absent.
C19_MaskingExactness ==
  MaskedRead =>
    LET record == getEntities[lastRead.id]
    IN /\ lastRead.result.k = "obj"
       /\ DOMAIN lastRead.result.f =
            (DeclaredFields(lastRead.fragment) \cup {"__typename"})
              \cap DOMAIN record
       /\ \A key \in DOMAIN lastRead.result.f :
            IsScalar(record[key]) => lastRead.result.f[key] = record[key]

\* User:1 holds name, email, phone and more; the read by the fragment
\* declaring name and email returns the discriminator, name and email
C19_Witness ==
  /\ MaskedRead
  /\ lastRead.id = "User:1"
  /\ {"id", "phone", "name", "email"} \subseteq DOMAIN getEntities["User:1"]
  /\ lastRead.result = Obj([__typename |-> Str("User"), name |-> Str("A"),
                            email |-> Str("e")])

\* the value a masked read holds for a stored reference with a record: the
\* record with all its fields, resolved below it
FullEntity(ref) == Resolved(Obj(getEntities[RefId(ref)]), getEntities, {RefId(ref)})

\* C20: masking is shallow: under a declared field holding a reference, or a
\* list of references, to an entity of the view, the masked result holds that
\* entity denormalized with all of its stored fields.
C20_MaskingShallow ==
  MaskedRead =>
    LET record == getEntities[lastRead.id]
    IN \A key \in DOMAIN lastRead.result.f :
         /\ (isEntityRef(record[key]) /\ RefId(record[key]) \in DOMAIN getEntities) =>
              /\ lastRead.result.f[key] = FullEntity(record[key])
              /\ DOMAIN lastRead.result.f[key].f =
                   DOMAIN getEntities[RefId(record[key])]
         /\ record[key].k = "list" =>
              \A i \in DOMAIN record[key].items :
                (/\ isEntityRef(record[key].items[i])
                 /\ RefId(record[key].items[i]) \in DOMAIN getEntities) =>
                  /\ lastRead.result.f[key].items[i] = FullEntity(record[key].items[i])
                  /\ DOMAIN lastRead.result.f[key].items[i].f =
                       DOMAIN getEntities[RefId(record[key].items[i])]

\* a masked read of User:1 by the fragment declaring name, friend and
\* users: User:2 is held in full under friend, its undeclared id and its own
\* reference resolved
C20_Witness ==
  /\ MaskedRead
  /\ lastRead.id = "User:1"
  /\ "id" \notin DOMAIN lastRead.result.f
  /\ "friend" \in DOMAIN lastRead.result.f
  /\ lastRead.result.f["friend"].k = "obj"
  /\ {"id", "author"} \subseteq DOMAIN lastRead.result.f["friend"].f
  /\ lastRead.result.f["friend"].f["author"].k = "obj"

----------------------------------------------------------------------------
(* Properties of the identity resolver *)

\* the last call was toReference of an object
Resolving == lastRead.op = "toReference"

\* the EntityId the last toReference returned, none when it returned undefined
ResolvedId ==
  IF lastRead.result = Undef THEN NoEntityId ELSE RefId(lastRead.result)

TypenameOf(object) ==
  IF Get(object, "__typename").k = "str" THEN Get(object, "__typename").v ELSE ""

\* the fields the identity of a type is made of: the listed key fields, the
\* field the key function reads, id and _id by default
IdentityFields(typename) ==
  CASE typename = "Product" -> {"sku", "warehouse"}
    [] typename = "Tag" -> {"slug"}
    [] OTHER -> {"id", "_id"}

SameIdentityFields(a, b) ==
  /\ Get(a, "__typename") = Get(b, "__typename")
  /\ \A field \in IdentityFields(TypenameOf(a)) : Get(a, field) = Get(b, field)

\* C21: two objects with the same type discriminator and the same values of
\* the identity fields get the same EntityId, whatever their other fields.
C21_IdentityDeterminism ==
  Resolving =>
    \A other \in IdentityObjects :
      SameIdentityFields(lastRead.payload.f, other) =>
        toReference(other) = lastRead.result

\* an object with an EntityId, resolved while another object with the same
\* identity fields and other fields besides exists
C21_Witness ==
  /\ Resolving
  /\ ResolvedId # NoEntityId
  /\ \E other \in IdentityObjects :
       /\ SameIdentityFields(lastRead.payload.f, other)
       /\ other # lastRead.payload.f

\* the segment a key field contributes: its string for a string, a number or
\* a boolean, empty when missing, null or not a primitive
Segment(object, field) ==
  IF field \notin DOMAIN object THEN ""
  ELSE CASE object[field].k = "str" -> object[field].v
         [] object[field].k = "num" -> ToString(object[field].n)
         [] object[field].k = "bool" -> (IF object[field].b THEN "true" ELSE "false")
         [] OTHER -> ""

\* C22: with the key-field list [sku, warehouse] the EntityId is the typename
\* and the stringified values of sku and warehouse in that order joined by
\* ':', a missing or non-primitive value giving an empty segment.
C22_MultiFieldIdentity ==
  (Resolving /\ TypenameOf(lastRead.payload.f) = "Product") =>
    ResolvedId = "Product:" \o Segment(lastRead.payload.f, "sku") \o ":"
                   \o Segment(lastRead.payload.f, "warehouse")

\* {Product, sku: X, warehouse: W1} resolved to Product:X:W1
C22_Witness ==
  /\ Resolving
  /\ TypenameOf(lastRead.payload.f) = "Product"
  /\ Get(lastRead.payload.f, "sku") = Str("X")
  /\ Get(lastRead.payload.f, "warehouse") = Str("W1")
  /\ ResolvedId = "Product:X:W1"

\* a value that can serve as the default identity
IsIdValue(value) == value.k \in {"str", "num"}

\* the object has no type discriminator, or the identity computed for it is
\* empty or not a primitive: no id and no _id of string or number by
\* default, all listed key fields missing, no slug for the key function
Unresolvable(object) ==
  \/ TypenameOf(object) = ""
  \/ /\ TypenameOf(object) = "Product"
     /\ \A field \in IdentityFields("Product") : field \notin DOMAIN object
  \/ /\ TypenameOf(object) = "Tag"
     /\ (Get(object, "slug").k # "str" \/ Get(object, "slug") = Str(""))
  \/ /\ TypenameOf(object) \notin {"", "Product", "Tag"}
     /\ ~IsIdValue(IF IsNullish(Get(object, "id")) THEN Get(object, "_id")
                   ELSE Get(object, "id"))

\* C23: an object without a type discriminator, or whose identity would be
\* empty or non-primitive, gets no EntityId under the default policy, under
\* a key-field list policy and under a key function policy, and normalize
\* keeps it inline without placing any record for it in the entity map.
C23_UnresolvableIsNull ==
  (Resolving /\ Unresolvable(lastRead.payload.f)) =>
    /\ lastRead.result = Undef
    /\ normalize(lastRead.payload).result = lastRead.payload
    /\ normalize(lastRead.payload).entities = EmptyMap

\* C24: without a policy for the type the EntityId is typename:value of the
\* id field, of _id when id is absent; only a string or a number is accepted
\* and anything else gives no EntityId.
C24_DefaultIdentity ==
  (Resolving /\ TypenameOf(lastRead.payload.f) = "User") =>
    LET object == lastRead.payload.f
    IN IF "id" \in DOMAIN object /\ object["id"] # Null
       THEN ResolvedId = IF IsIdValue(object["id"])
                         THEN "User:" \o ToStr(object["id"]) ELSE NoEntityId
       ELSE IF "_id" \in DOMAIN object
       THEN ResolvedId = "User:" \o ToStr(object["_id"])
       ELSE ResolvedId = NoEntityId

\* an object without id resolved by its _id
C24_Witness ==
  /\ Resolving
  /\ TypenameOf(lastRead.payload.f) = "User"
  /\ "id" \notin DOMAIN lastRead.payload.f
  /\ Get(lastRead.payload.f, "_id") = Num(7)
  /\ ResolvedId = "User:7"

----------------------------------------------------------------------------
(* Properties of the calls of the cache operations *)

\* the last state-changing call returned to its caller
Returned(op) == lastOp.op = op /\ lastOp.returned # Thrown

\* the type of a stored record
TypeOfRecord(record) == TypenameOf(record)

\* the merge function a type policy configures for whole records, "" none
TypeMerge(typename) ==
  IF typename \in DOMAIN typePolicies THEN typePolicies[typename].merge ELSE ""

\* the fields of a type with a merge function of their own
MergedFieldsOf(typename) ==
  IF typename \in DOMAIN typePolicies
  THEN DOMAIN typePolicies[typename].fields
  ELSE {}

\* C25: when a type policy configures a merge function for the record or
\* for a field, write stores what the function returns for (existing value,
\* incoming value) in place of the shallow overwrite.
C25_MergePolicyApplied ==
  Returned("write") =>
    LET incoming == normalize(lastOp.data).entities
    IN \A id \in DOMAIN incoming :
         /\ TypeMerge(TypeOfRecord(incoming[id])) = "MergeKeepExisting" =>
              Obj(entities[id]) =
                MergeKeepExisting(IF id \in DOMAIN lastOp.entities
                                  THEN Obj(lastOp.entities[id]) ELSE Undef,
                                  Obj(incoming[id]))
         /\ \A field \in MergedFieldsOf(TypeOfRecord(incoming[id])) \cap
                           DOMAIN incoming[id] :
              entities[id][field] =
                MergeConcat(IF id \in DOMAIN lastOp.entities
                            THEN Get(lastOp.entities[id], field) ELSE Undef,
                            incoming[id][field])

\* the key function of type Label throws for the object
KeyThrowsFor(object) ==
  TypenameOf(object) = "Label" /\ Get(object, "name").k # "str"

\* some object inside the value makes the key function throw
RECURSIVE KeyThrowsIn(_)
KeyThrowsIn(value) ==
  \/ value.k = "obj" /\ KeyThrowsFor(value.f)
  \/ \E child \in Children(value) : KeyThrowsIn(child)

\* the id argument is an object the key function throws for
IdArgThrows(id) == id.k = "obj" /\ KeyThrowsFor(id.f)

\* C26: when the user's key function throws while write, addOptimisticLayer,
\* writeFragment, evict, readFragment or toReference runs it, the caller gets
\* the exception, not a result, and the store and the layers are untouched.
C26_PolicyFailurePropagates ==
  /\ (lastOp.op \in {"write", "addOptimisticLayer"} /\ KeyThrowsIn(lastOp.data)) =>
       /\ lastOp.returned = Thrown
       /\ entities = lastOp.entities
       /\ optimisticLayers = lastOp.layers
  /\ (lastOp.op \in {"writeFragment", "evict"} /\ IdArgThrows(lastOp.target)) =>
       /\ lastOp.returned = Thrown
       /\ entities = lastOp.entities
       /\ optimisticLayers = lastOp.layers
  /\ (lastRead.op \in {"readFragment", "toReference"} /\ IdArgThrows(lastRead.id)) =>
       lastRead.result = Thrown

\* a write whose payload holds, below an entity, an object the key function
\* throws for, called on a store with records: it threw
C26_Witness ==
  /\ lastOp.op = "write"
  /\ "user" \in DOMAIN lastOp.data.f
  /\ KeyThrowsIn(lastOp.data.f["user"])
  /\ lastOp.returned = Thrown
  /\ "Profile:1" \in DOMAIN entities

\* the EntityId an id argument stands for, none when it resolves to null
ArgId(id) ==
  IF id.k = "str" THEN id.v
  ELSE IF toReference(id.f) \in {Undef, Thrown} THEN NoEntityId
  ELSE RefId(toReference(id.f))

\* the EntityId useFragment makes of a reference
RefEntityId(ref) == ToStr(ref.f["__typename"]) \o ":" \o ToStr(ref.f["id"])

MissingTypename(ref) == ref.k = "obj" /\ "__typename" \notin DOMAIN ref.f

MissingId(ref) ==
  /\ ref.k = "obj"
  /\ "__typename" \in DOMAIN ref.f
  /\ ("id" \notin DOMAIN ref.f \/ ref.f["id"] = Null)

EntityNotFound(ref) ==
  /\ ref.k = "obj"
  /\ ~MissingTypename(ref)
  /\ ~MissingId(ref)
  /\ RefEntityId(ref) \notin DOMAIN getEntities

\* C27: readFragment returns null for an id that is not in the composed
\* view; useFragment returns null by default for a null reference, a
\* reference without typename or id and an entity not in the cache, and with
\* throwOnMissing it raises an error in the last three cases.
C27_MissingEntityLookup ==
  /\ (/\ lastRead.op = "readFragment"
      /\ ~IdArgThrows(lastRead.id)
      /\ ArgId(lastRead.id) \notin DOMAIN getEntities) =>
       lastRead.result = Null
  /\ lastRead.op = "useFragment" =>
       LET ref == lastRead.id
           throwOnMissing == lastRead.payload.b
       IN /\ ref \in {Null, Undef} => lastRead.result = Null
          /\ (MissingTypename(ref) \/ MissingId(ref) \/ EntityNotFound(ref)) =>
               IF throwOnMissing
               THEN lastRead.result =
                      FragmentError(IF MissingTypename(ref) THEN "is missing __typename"
                                    ELSE IF MissingId(ref) THEN "is missing id"
                                    ELSE "Entity not found")
               ELSE lastRead.result = Null

\* useFragment with throwOnMissing for User:2 while the cache holds other
\* records but not User:2
C27_Witness ==
  /\ lastRead.op = "useFragment"
  /\ lastRead.payload = Bool(TRUE)
  /\ EntityNotFound(lastRead.id)
  /\ lastRead.result = FragmentError("Entity not found")
  /\ "User:1" \in DOMAIN getEntities

\* C28: writeFragment(id, data) merges data into the record of the id (data
\* fields overwrite, the record's other fields stay), creates the record
\* when absent, and leaves every other record of the base store and every
\* optimistic layer unchanged; with an unresolvable id nothing changes.
C28_WriteFragmentFrame ==
  Returned("writeFragment") =>
    LET e == ArgId(lastOp.target)
        before == lastOp.entities
        data == lastOp.data.f
    IN /\ optimisticLayers = lastOp.layers
       /\ IF e = NoEntityId THEN entities = before
          ELSE /\ DOMAIN entities = DOMAIN before \cup {e}
               /\ \A other \in DOMAIN before \ {e} : entities[other] = before[other]
               /\ DOMAIN entities[e] =
                    DOMAIN data \cup (IF e \in DOMAIN before
                                      THEN DOMAIN before[e] ELSE {})
               /\ \A key \in DOMAIN entities[e] :
                    entities[e][key] =
                      IF key \in DOMAIN data THEN data[key] ELSE before[e][key]

\* writeFragment into the existing User:1, which holds other fields, with
\* another record in the store and an optimistic layer active
C28_Witness ==
  /\ Returned("writeFragment")
  /\ lastOp.target = Str("User:1")
  /\ "User:1" \in DOMAIN lastOp.entities
  /\ "id" \in DOMAIN lastOp.entities["User:1"]
  /\ "Profile:1" \in DOMAIN lastOp.entities
  /\ lastOp.layers # <<>>
  /\ entities # lastOp.entities

\* C29: evict returns true exactly when the base store held a record for
\* the id, and false, changing nothing, otherwise; with a field name only
\* that field is removed from the record, without one the whole record.
C29_EvictReturn ==
  Returned("evict") =>
    LET e == ArgId(lastOp.target)
        before == lastOp.entities
    IN /\ lastOp.returned = Bool(e \in DOMAIN before)
       /\ optimisticLayers = lastOp.layers
       /\ e \notin DOMAIN before => entities = before
       /\ (e \in DOMAIN before /\ lastOp.field = "") =>
            entities = [id \in DOMAIN before \ {e} |-> before[id]]
       /\ (e \in DOMAIN before /\ lastOp.field # "") =>
            /\ DOMAIN entities = DOMAIN before
            /\ \A id \in DOMAIN before \ {e} : entities[id] = before[id]
            /\ entities[e] =
                 [key \in DOMAIN before[e] \ {lastOp.field} |-> before[e][key]]

\* evict of the field name of User:1, which holds name and other fields
C29_Witness ==
  /\ Returned("evict")
  /\ lastOp.target = Str("User:1")
  /\ lastOp.field = "name"
  /\ lastOp.returned = Bool(TRUE)
  /\ {"name", "id"} \subseteq DOMAIN lastOp.entities["User:1"]
  /\ "User:1" \in DOMAIN entities

----------------------------------------------------------------------------
(* Properties of one normalize pass *)

\* a value as normalize leaves it in a record: entity objects replaced by
\* references, lists and embedded objects kept
RECURSIVE ReferenceForm(_)
ReferenceForm(value) ==
  IF value.k = "list"
  THEN List([i \in DOMAIN value.items |-> ReferenceForm(value.items[i])])
  ELSE IF value.k = "obj"
  THEN IF IdentityOf(value) # NoEntityId
       THEN Obj([__ref |-> Str(IdentityOf(value))])
       ELSE Obj([key \in DOMAIN value.f |-> ReferenceForm(value.f[key])])
  ELSE value

\* C30: within one normalize pass the occurrences of one EntityId merge in
\* traversal order, a later occurrence overwriting the fields of an earlier
\* one and adding new ones; an occurrence nested inside another occurrence
\* of the same entity is merged first, so the enclosing one's fields win.
C30_PassMergeOrder ==
  lastRead.op = "normalize" =>
    LET occs == Occurrences(lastRead.payload)
        pass == lastRead.result.entities
    IN /\ DOMAIN pass = {IdentityOf(occs[i]) : i \in DOMAIN occs}
       /\ \A id \in DOMAIN pass :
            LET merged == MergedFields(occs, Len(occs), id)
            IN pass[id] = [key \in DOMAIN merged |-> ReferenceForm(merged[key])]

\* a pass over User:1 holding, as its friend, User:1 again with another
\* name and a field of its own: the outer name and the inner field are kept
C30_Witness ==
  /\ lastRead.op = "normalize"
  /\ "user" \in DOMAIN lastRead.payload.f
  /\ Get(lastRead.payload.f["user"].f, "name") = Str("Outer")
  /\ Get(lastRead.payload.f["user"].f["friend"].f, "name") = Str("Inner")
  /\ lastRead.result.entities["User:1"]["name"] = Str("Outer")
  /\ lastRead.result.entities["User:1"]["phone"] = Str("1")
  /\ lastRead.result.entities["User:1"]["friend"] = Obj([__ref |-> Str("User:1")])

----------------------------------------------------------------------------
(* Properties of missing data on the masked read path *)

\* a stored reference to an EntityId the composed view does not hold
Dangling(value) == isEntityRef(value) /\ RefId(value) \notin DOMAIN getEntities

\* C39: in a masked read, a declared field that holds a reference, or a list
\* containing a reference, to an EntityId missing from the composed view has
\* an absent value (undefined) at that position, not the raw reference.
C39_MaskedDanglingIsAbsent ==
  MaskedRead =>
    LET record == getEntities[lastRead.id]
    IN \A key \in DOMAIN lastRead.result.f :
         /\ Dangling(record[key]) => lastRead.result.f[key] = Undef
         /\ record[key].k = "list" =>
              \A i \in DOMAIN record[key].items :
                Dangling(record[key].items[i]) =>
                  lastRead.result.f[key].items[i] = Undef

----------------------------------------------------------------------------
(* Properties of failed writes *)

\* the entities of a payload that normalize completes before the key
\* function throws: those that precede the throwing object in traversal
\* order and do not enclose it
RECURSIVE CompletedBeforeThrow(_, _)
CompletedBeforeThrow(occs, n) ==
  IF n > Len(occs) \/ KeyThrowsFor(occs[n].f) \/ KeyThrowsIn(occs[n]) THEN {}
  ELSE {IdentityOf(occs[n])} \cup CompletedBeforeThrow(occs, n + 1)

\* C38: when the key function throws during write or addOptimisticLayer, the
\* base store and the layer list are exactly as before the call; none of the
\* payload's entities is merged, not even those normalized before the throw.
C38_FailedWriteIsAtomic ==
  (lastOp.op \in {"write", "addOptimisticLayer"} /\ lastOp.returned = Thrown) =>
    /\ entities = lastOp.entities
    /\ optimisticLayers = lastOp.layers
    /\ Len(optimisticLayers) = Len(lastOp.layers)
    /\ \A id \in CompletedBeforeThrow(Occurrences(lastOp.data), 1) :
         id \in DOMAIN entities => id \in DOMAIN lastOp.entities

\* a write that threw after User:3 of its payload had been normalized, on a
\* store with records: User:3 is not in the store
C38_Witness ==
  /\ lastOp.op = "write"
  /\ lastOp.returned = Thrown
  /\ "User:3" \in CompletedBeforeThrow(Occurrences(lastOp.data), 1)
  /\ "User:3" \notin DOMAIN entities
  /\ "User:1" \in DOMAIN entities

----------------------------------------------------------------------------
(* Properties of lookups by fragment reference *)

\* C36: for every entity cache.write stored under the configured policies,
\* useFragment given a reference with that entity's type discriminator and
\* identity fields computes the EntityId the entity is stored under, and
\* returns the entity.
C36_LookupFindsStored ==
  (/\ lastRead.op = "useFragment"
   /\ getEntityId(lastRead.id.f, typePolicies) \in DOMAIN entities) =>
    /\ lastRead.result.k = "obj"
    /\ Get(lastRead.result.f, "name") =
         Get(entities[getEntityId(lastRead.id.f, typePolicies)], "name")

----------------------------------------------------------------------------
(* Properties of base writes under an active optimistic layer *)

\* C35 as stated: while a layer is active, the composed view shows that
\* layer's value for every entity field the layer sets.
C35_LayerShadowsBase ==
  \A i \in 1..Len(optimisticLayers) :
    \A id \in DOMAIN optimisticLayers[i].entities :
      \A f \in DOMAIN optimisticLayers[i].entities[id] :
        getEntities[id][f] = optimisticLayers[i].entities[id][f]

\* layer i sets field f of entity id and no layer added after it does
SetsOnTop(layers, i, id, f) ==
  /\ id \in DOMAIN layers[i].entities
  /\ f \in DOMAIN layers[i].entities[id]
  /\ \A j \in (i + 1)..Len(layers) :
       ~(id \in DOMAIN layers[j].entities /\ f \in DOMAIN layers[j].entities[id])

\* some layer sets field f of entity id
SetByLayer(layers, id, f) ==
  \E i \in 1..Len(layers) :
    id \in DOMAIN layers[i].entities /\ f \in DOMAIN layers[i].entities[id]

\* C35, amended: a base write (write, writeFragment) landing while layers are
\* active leaves the view showing, for every entity field a layer sets and
\* no later-added layer sets, that layer's value; after a layer is removed,
\* the view shows the current base value of every field no remaining layer
\* sets.
C35_LayerShadowsBaseWrites ==
  [][/\ lastOp'.op \in {"write", "writeFragment"} =>
          /\ optimisticLayers' = optimisticLayers
          /\ \A i \in 1..Len(optimisticLayers) :
               \A id \in DOMAIN optimisticLayers[i].entities :
                 \A f \in DOMAIN optimisticLayers[i].entities[id] :
                   SetsOnTop(optimisticLayers, i, id, f) =>
                     getEntities'[id][f] = optimisticLayers[i].entities[id][f]
     /\ lastOp'.op = "remove" =>
          \A id \in DOMAIN entities' :
            \A f \in DOMAIN entities'[id] :
              ~SetByLayer(optimisticLayers', id, f) =>
                getEntities'[id][f] = entities'[id][f]]_vars

\* a write of User:1 with name A has landed under a layer that sets the name
\* of User:1: the base holds A, the view the layer's name
C35_Witness ==
  /\ lastOp.op = "write"
  /\ Len(optimisticLayers) = 1
  /\ "User:1" \in DOMAIN entities
  /\ Get(entities["User:1"], "name") = Str("A")
  /\ getEntities["User:1"]["name"] = optimisticLayers[1].entities["User:1"]["name"]
  /\ getEntities["User:1"]["name"] # Str("A")

----------------------------------------------------------------------------
(* Properties of concurrent mutations with optimistic responses *)

\* the positions of the layers with the id
PositionsOf(layers, layerId) == {k \in 1..Len(layers) : layers[k].id = layerId}

\* the list without its k-th layer, the others in their order
DropAt(layers, k) == SubSeq(layers, 1, k - 1) \o SubSeq(layers, k + 1, Len(layers))

\* call m leaves onSuccess or onError in this step
Settles(m) ==
  /\ muts[m].pc \in {"onSuccess", "onError"}
  /\ muts'[m].pc # muts[m].pc

\* the layer on top of the list shows all its values in the composed view
TopLayerVisible ==
  optimisticLayers # <<>> =>
    LET top == optimisticLayers[Len(optimisticLayers)].entities
    IN \A id \in DOMAIN top : \A f \in DOMAIN top[id] :
         getEntities[id][f] = top[id][f]

\* C33: the layer handles issued to mutations are pairwise distinct and at
\* most one layer carries each; when a mutation settles, the
\* removeOptimisticLayer of its handle removes exactly its own layer, every
\* other layer stays in the list at its relative position, and the values of
\* the layer then on top are visible in the composed view.
C33_ConcurrentLayersIndependent ==
  [][/\ \A m, n \in DOMAIN muts :
          (m # n /\ muts'[m].layerAdded # "") =>
            muts'[m].layerAdded # muts'[n].layerAdded
     /\ \A m \in DOMAIN muts :
          Cardinality(PositionsOf(optimisticLayers', muts'[m].layerAdded)) <= 1
     /\ \A m \in DOMAIN muts :
          Settles(m) =>
            /\ IF PositionsOf(optimisticLayers, muts[m].ctxLayerId) = {}
               THEN optimisticLayers' = optimisticLayers
               ELSE \E k \in PositionsOf(optimisticLayers, muts[m].ctxLayerId) :
                      /\ muts[m].layerAdded = optimisticLayers[k].id
                      /\ optimisticLayers' = DropAt(optimisticLayers, k)
            /\ TopLayerVisible']_vars

\* two mutations added a layer each; the first has settled and its layer is
\* gone, the second is in flight and its layer, the only one left, shows its
\* name in the view
C33_Witness ==
  /\ muts[1].pc = "settled"
  /\ muts[1].layerAdded # ""
  /\ muts[2].pc = "request"
  /\ muts[2].layerAdded # ""
  /\ muts[1].layerAdded \notin LayerIdsOf(optimisticLayers)
  /\ Len(optimisticLayers) = 1
  /\ optimisticLayers[1].id = muts[2].layerAdded
  /\ getEntities["User:1"]["name"] = Str("O2")

----------------------------------------------------------------------------
(* Properties of the order of confirmation and layer removal *)

\* the name of User:1 in a map of records, undefined when it has none
NameIn(ents) ==
  IF "User:1" \in DOMAIN ents THEN Get(ents["User:1"], "name") ELSE Undef

\* the name the server's response to call m confirms
ConfirmedName(m) == Str("S" \o ToString(m))

\* call m runs with a layer of its own and no other write has landed since
\* it started on a store that held a name for User:1
Undisturbed(m) ==
  /\ muts[m].layerAdded # ""
  /\ ~muts[m].failed
  /\ ~muts[m].otherWrites
  /\ NameIn(muts[m].baseAtStart) # Undef

----------------------------------------------------------------------------
(* Properties of client.execute: retries and interceptors *)

\* the calls of execute made by retry()
Reexecutions == {a \in DOMAIN queries : queries[a].retryCount > 0}

\* C31: for one call of client.execute, retry() re-executes the request at
\* most maxRetries times in total, none with maxRetries 0, in the
\* network-error branch and in the GraphQL-errors branch alike.
C31_RetriesBounded ==
  queries # <<>> =>
    /\ Cardinality(Reexecutions) <= queries[1].options.maxRetries
    /\ \A a \in DOMAIN queries :
         queries[a].retryCount <= queries[a].options.maxRetries

\* C32: whenever execute fails (status not ok, GraphQL errors, network or
\* unexpected error) and an onError interceptor is configured, the
\* interceptor is invoked with the error; when it returns null execute
\* resolves, otherwise the error it returns is thrown.
C32_OnErrorSeesEveryFailure ==
  \A a \in DOMAIN queries :
    (/\ AttemptSettled(a)
     /\ queries[a].options.onError
     /\ queries[a].failure # "") =>
      /\ queries[a].onErrorCalls >= 1
      /\ queries[a].handled # <<>>
      /\ IF queries[a].handled[1] = "null"
         THEN queries[a].pc = "resolved"
         ELSE queries[a].pc = "rejected" /\ queries[a].error = queries[a].handled[1]

\* C40: for one call of execute with its one fetch, onError is invoked at
\* most once and onResponse at most once, and never both.
C40_OneInterceptorPerAttempt ==
  \A a \in DOMAIN queries :
    /\ queries[a].onErrorCalls <= 1
    /\ queries[a].onResponseCalls <= 1
    /\ ~(queries[a].onErrorCalls >= 1 /\ queries[a].onResponseCalls >= 1)

----------------------------------------------------------------------------
(* Properties of the cache write of a query or a mutation *)

\* the operation has settled: lastOp is its record
OperationSettled == lastOp.op \in {"query", "mutation"}

\* C37: the query of useGraphQLQuery and the mutation of useGraphQLMutation
\* call cache.write only for a response without errors and with defined
\* data, and only when useNormalizedCache is not false; a rejected execute, a
\* response with errors or with undefined data (such as the { data:
\* undefined } of a suppressed error) makes the operation throw and leaves
\* the store unchanged.
C37_WriteOnlyCleanData ==
  OperationSettled =>
    LET clean == /\ queries[1].pc = "resolved"
                 /\ ~lastOp.response.errors
                 /\ lastOp.response.data
    IN /\ ~clean => lastOp.returned = Thrown /\ entities = lastOp.entities
       /\ ~lastOp.useCache => entities = lastOp.entities
       /\ (clean /\ lastOp.useCache) =>
            /\ lastOp.returned # Thrown
            /\ entities =
                 MergeInto(lastOp.entities,
                           normalize(OperationData(lastOp.op)).entities)

\* a mutation whose execute resolved with the errors response that onError
\* suppressed, data included, on a store with a record: it threw and the
\* store is as it was
C37_Witness ==
  /\ OperationSettled
  /\ lastOp.op = "mutation"
  /\ lastOp.useCache
  /\ queries[1].pc = "resolved"
  /\ queries[1].handled = <<"null">>
  /\ lastOp.response = Body(TRUE, TRUE)
  /\ lastOp.returned = Thrown
  /\ "User:1" \in DOMAIN entities
  /\ entities = lastOp.entities

====
